---------------------------- MODULE Spec2Model ----------------------------
(***************************************************************************)
(* A model of print_lineups.py: the report driver main(), the game,        *)
(* pitcher, officials and lineup resolvers, and the __main__ boundary.     *)
(*                                                                         *)
(* Conventions.                                                            *)
(*  - A Python string that is printed or searched is a sequence of word    *)
(*    tokens; `needle in text` is "needle is a contiguous run of text".    *)
(*  - A --team argument is a sequence of one-character strings, so that    *)
(*    str.upper() is computed character by character.                      *)
(*  - An optional Python value is None (the empty tuple) or Some(v) (the   *)
(*    one-element tuple holding v).                                        *)
(*  - A dict is a function over the keys it holds; d[k] on a missing key   *)
(*    raises KeyError, d.get(k) yields None.                               *)
(***************************************************************************)
EXTENDS Integers, Sequences, FiniteSets, TLC

VARIABLES
    pc,          \* position of the run inside main() / __main__
    argv,        \* the parsed command line: [team, date]
    team_abbr,   \* main's team_abbr (a string), None before it is set
    team_id,     \* main's team_id, None before it is set
    game,        \* the tuple returned by get_team_game, None before the call
    pitchers,    \* get_probable_pitchers' return value: None or Some(dict)
    umpires,     \* get_umpires' return value: None or Some(list)
    lineup,      \* get_lineup's return value: <<lineup_data, error>>
    resp,        \* the responses the step last taken received from outside
    exc,         \* the exception escaping main(), None when there is none
    out,         \* standard output: a sequence of printed lines
    calls,       \* every resolver invocation and outbound call, in order
    exit_status  \* the process exit status, None while running

vars == <<pc, argv, team_abbr, team_id, game, pitchers, umpires, lineup,
          resp, exc, out, calls, exit_status>>

----------------------------------------------------------------------------
(* Python values *)

None == <<>>
Some(v) == <<v>>
Val(o) == o[1]

\* the dict {}
EmptyDict == [k \in {} |-> k]

\* d[k] is defined exactly when HasKey(d, k); d.get(k) is Get(d, k).
HasKey(d, k) == k \in DOMAIN d
Get(d, k) == IF k \in DOMAIN d THEN Some(d[k]) ELSE None

\* `needle in text` for strings as token sequences.
Contains(text, needle) ==
    \E i \in 1..(Len(text) - Len(needle) + 1) :
        SubSeq(text, i, i + Len(needle) - 1) = needle

\* A raised exception: its class and str(e).
Exc(type, text) == [type |-> type, text |-> text]

\* except requests.exceptions.RequestException
IsRequestException(e) == e.type = "RequestException"

\* except KeyError
IsKeyError(e) == e.type = "KeyError"

\* str(KeyError(k)) is repr(k)
KeyErr(k) == Exc("KeyError", <<"'" \o k \o "'">>)

----------------------------------------------------------------------------
(* MLB_TEAMS and the --team argument *)

MLB_TEAMS_ROWS == <<
    [abbr |-> <<"A","R","I">>, id |-> 109],
    [abbr |-> <<"A","T","L">>, id |-> 144],
    [abbr |-> <<"B","A","L">>, id |-> 110],
    [abbr |-> <<"B","O","S">>, id |-> 111],
    [abbr |-> <<"C","H","C">>, id |-> 112],
    [abbr |-> <<"C","I","N">>, id |-> 113],
    [abbr |-> <<"C","L","E">>, id |-> 114],
    [abbr |-> <<"C","O","L">>, id |-> 115],
    [abbr |-> <<"C","W","S">>, id |-> 145],
    [abbr |-> <<"D","E","T">>, id |-> 116],
    [abbr |-> <<"H","O","U">>, id |-> 117],
    [abbr |-> <<"K","C">>,     id |-> 118],
    [abbr |-> <<"L","A","A">>, id |-> 108],
    [abbr |-> <<"L","A","D">>, id |-> 119],
    [abbr |-> <<"M","I","A">>, id |-> 146],
    [abbr |-> <<"M","I","L">>, id |-> 158],
    [abbr |-> <<"M","I","N">>, id |-> 142],
    [abbr |-> <<"N","Y","M">>, id |-> 121],
    [abbr |-> <<"N","Y","Y">>, id |-> 147],
    [abbr |-> <<"O","A","K">>, id |-> 133],
    [abbr |-> <<"P","H","I">>, id |-> 143],
    [abbr |-> <<"P","I","T">>, id |-> 134],
    [abbr |-> <<"S","D">>,     id |-> 135],
    [abbr |-> <<"S","E","A">>, id |-> 136],
    [abbr |-> <<"S","F">>,     id |-> 137],
    [abbr |-> <<"S","T","L">>, id |-> 138],
    [abbr |-> <<"T","B">>,     id |-> 139],
    [abbr |-> <<"T","E","X">>, id |-> 140],
    [abbr |-> <<"T","O","R">>, id |-> 141],
    [abbr |-> <<"W","S","H">>, id |-> 120] >>

UpperLetters == <<"A","B","C","D","E","F","G","H","I","J","K","L","M",
                  "N","O","P","Q","R","S","T","U","V","W","X","Y","Z">>
LowerLetters == <<"a","b","c","d","e","f","g","h","i","j","k","l","m",
                  "n","o","p","q","r","s","t","u","v","w","x","y","z">>

\* The characters of a string joined into the string.
RECURSIVE Join(_)
Join(cs) == IF cs = <<>> THEN "" ELSE Head(cs) \o Join(Tail(cs))

\* The dict literal: later rows of a repeated key would overwrite earlier ones.
MLB_TEAMS ==
    [k \in {Join(MLB_TEAMS_ROWS[i].abbr) : i \in DOMAIN MLB_TEAMS_ROWS} |->
        LET last == CHOOSE i \in DOMAIN MLB_TEAMS_ROWS :
                      /\ Join(MLB_TEAMS_ROWS[i].abbr) = k
                      /\ \A j \in DOMAIN MLB_TEAMS_ROWS :
                            Join(MLB_TEAMS_ROWS[j].abbr) = k => j <= i
        IN  MLB_TEAMS_ROWS[last].id]

\* str.upper() on one character: a lower-case letter becomes the upper-case
\* one, every other character is kept.
UpperChar(c) ==
    IF \E i \in DOMAIN LowerLetters : LowerLetters[i] = c
    THEN UpperLetters[CHOOSE i \in DOMAIN LowerLetters : LowerLetters[i] = c]
    ELSE c

\* args.team.upper()
Upper(cs) == Join([i \in DOMAIN cs |-> UpperChar(cs[i])])

\* Code-point order of the characters that occur in the table's keys.
Ord(c) == CHOOSE i \in DOMAIN UpperLetters : UpperLetters[i] = c

\* Python's str `<` on two keys given by their characters.
RECURSIVE StrLess(_, _)
StrLess(a, b) ==
    IF b = <<>> THEN FALSE
    ELSE IF a = <<>> THEN TRUE
    ELSE IF Head(a) = Head(b) THEN StrLess(Tail(a), Tail(b))
    ELSE Ord(Head(a)) < Ord(Head(b))

\* Insert key k into the ascending list s, after the keys not greater.
RECURSIVE InsertKey(_, _)
InsertKey(k, s) ==
    IF s = <<>> THEN <<k>>
    ELSE IF StrLess(k, Head(s)) THEN <<k>> \o s
    ELSE <<Head(s)>> \o InsertKey(k, Tail(s))

RECURSIVE SortKeys(_)
SortKeys(s) == IF s = <<>> THEN <<>>
               ELSE InsertKey(s[Len(s)], SortKeys(SubSeq(s, 1, Len(s) - 1)))

\* sorted(MLB_TEAMS.keys()), each key as a printed token.
SortedTeamKeys ==
    LET keys == SortKeys([i \in DOMAIN MLB_TEAMS_ROWS |-> MLB_TEAMS_ROWS[i].abbr])
    IN  [i \in DOMAIN keys |-> Join(keys[i])]


----------------------------------------------------------------------------
(* Bounds of the inputs *)

\* the longest list statsapi.schedule returns
MaxGames == 2
\* the most entries of one side's batters list or batting-order list
MaxBatters == 2

----------------------------------------------------------------------------
(* Display names and messages used by the inputs *)

Mets == <<"New", "York", "Mets">>
BlueJays == <<"Toronto", "Blue", "Jays">>
Cardinals == <<"St.", "Louis", "Cardinals">>

\* str(e) of the exceptions the outside can raise
ExcTexts == { <<"API", "failure">>, <<"connection", "timed", "out">> }

\* an outbound call that raised
Raised(e) == [raises |-> TRUE, exc |-> e]
\* an outbound call that returned v
Returned(v) == [raises |-> FALSE, val |-> v]

----------------------------------------------------------------------------
(* get_team_game *)

Statuses == {"Final", "In Progress", "Scheduled", "Postponed"}

\* The games statsapi.schedule(date, team) can list: a full record per
\* status, one without the optional venue, and one that lacks a field the
\* resolver reads.
FullGame(s) ==
    [game_id |-> 778518, status |-> s, venue_name |-> <<"Citi", "Field">>,
     home_name |-> Mets, away_name |-> BlueJays,
     game_datetime |-> <<"2025-04-15T18:10:00Z">>]

NoVenueGame ==
    [game_id |-> 778600, status |-> "Scheduled",
     home_name |-> Cardinals, away_name |-> Mets,
     game_datetime |-> <<"2025-04-15T23:45:00Z">>]

NoHomeNameGame ==
    [game_id |-> 778700, status |-> "Final", venue_name |-> <<"Busch", "Stadium">>,
     away_name |-> Mets, game_datetime |-> <<"2025-04-16T17:15:00Z">>]

GamePool == {FullGame(s) : s \in Statuses} \cup {NoVenueGame, NoHomeNameGame}

\* every list of at most n games
RECURSIVE GameLists(_)
GameLists(n) ==
    IF n = 0 THEN {<<>>}
    ELSE LET shorter == GameLists(n - 1)
         IN  shorter \cup {Append(l, g) : l \in {x \in shorter : Len(x) = n - 1},
                                          g \in GamePool}

\* what statsapi.schedule(date=..., team=..., sportId=1) can do
ScheduleByDateResponses ==
    {Raised(Exc("Exception", t)) : t \in ExcTexts}
        \cup {Returned(l) : l \in GameLists(MaxGames)}

\* the except branch carrying str(e) alone, without the "Error fetching game
\* data:" prefix: C5 does not hold of it
TeamGameErrorBare(e) == <<None, None, None, Some(e.text)>>

\* the tuple returned on the except branch (line 92)
TeamGameError(e) ==
    <<None, None, None, Some(<<"Error", "fetching", "game", "data:">> \o e.text)>>

\* the tuple returned when no game is listed (line 74)
TeamGameNoGame ==
    <<None, None, None,
      Some(<<"No", "game", "scheduled", "for", "the", "selected", "team",
             "on", "this", "date.">>)>>

\* the tuple built from the game record g (lines 77-90)
TeamGameFrom(g) ==
    IF ~HasKey(g, "game_id") THEN TeamGameError(KeyErr("game_id"))
    ELSE IF ~HasKey(g, "status") THEN TeamGameError(KeyErr("status"))
    ELSE IF ~HasKey(g, "home_name") THEN TeamGameError(KeyErr("home_name"))
    ELSE IF ~HasKey(g, "away_name") THEN TeamGameError(KeyErr("away_name"))
    ELSE <<Some(g.game_id), Some(g.status), Get(g, "venue_name"),
           Some([home |-> g.home_name, away |-> g.away_name])>>

\* get_team_game(team_id, date), given what statsapi.schedule did
get_team_game(r) ==
    IF r.raises THEN TeamGameError(r.exc)
    ELSE IF r.val = <<>> THEN TeamGameNoGame
    ELSE TeamGameFrom(r.val[1])


----------------------------------------------------------------------------
(* What a resolver did: its return value (when exc = None), the exception   *)
(* it let escape, the lines it printed and the outbound calls it issued.    *)

Res(ret, prints, outcalls) == [ret |-> ret, exc |-> None, out |-> prints, calls |-> outcalls]
Esc(e, prints, outcalls) == [ret |-> None, exc |-> Some(e), out |-> prints, calls |-> outcalls]

\* requests.get(url); response.raise_for_status(); response.json(): a
\* transport or HTTP-status failure raises RequestException; a body that is
\* not JSON raises ValueError under requests releases older than 2.27 and a
\* RequestException subclass under later ones.
HttpFailures ==
    { Raised(Exc("RequestException", <<"connection", "refused">>)),
      Raised(Exc("ValueError", <<"Expecting", "value">>)) }

----------------------------------------------------------------------------
(* get_pitcher_details *)

\* line 129 with '' as the default of THROWS_MAP.get: C13 does not hold of it
ThrowsDescNoDefault(code) ==
    IF code = <<"R">> THEN <<"RHP">>
    ELSE IF code = <<"L">> THEN <<"LHP">>
    ELSE <<>>

\* THROWS_MAP.get(throws_code, 'Unknown')
ThrowsDesc(code) ==
    IF code = <<"R">> THEN <<"RHP">>
    ELSE IF code = <<"L">> THEN <<"LHP">>
    ELSE <<"Unknown">>

\* dict.get(key, default) on a string-valued field
GetOr(d, k, default) == IF HasKey(d, k) THEN d[k] ELSE default

\* the person records the people endpoint can hold: each of fullName,
\* primaryNumber and pitchHand present or absent, pitchHand with the code of
\* a right-hander, a left-hander, a switch pitcher, an empty code or no code
PersonPool ==
    { name @@ number @@ hand :
        name \in {EmptyDict, [fullName |-> <<"Kodai", "Senga">>]},
        number \in {EmptyDict, [primaryNumber |-> <<"34">>]},
        hand \in {EmptyDict}
                 \cup {[pitchHand |-> [code |-> c]] :
                         c \in {<<"R">>, <<"L">>, <<"S">>, <<>>}}
                 \cup {[pitchHand |-> [description |-> <<"Right">>]]} }

\* what GET /api/v1/people/{id} can do
PeopleResponses ==
    HttpFailures
        \cup {Returned([copyright |-> <<"MLB">>])}
        \cup {Returned([people |-> <<>>])}
        \cup {Returned([people |-> <<p>>]) : p \in PersonPool}

PeopleCall(pitcher_id) == [fn |-> "GET people", ids |-> <<pitcher_id>>, date |-> None]

\* lines 120-132: the details dict of people[0]
PitcherDetailsOf(person) ==
    LET throws_code == IF HasKey(person, "pitchHand")
                       THEN GetOr(person.pitchHand, "code", <<>>)
                       ELSE <<>>
    IN  [name |-> GetOr(person, "fullName", <<>>),
         jersey |-> GetOr(person, "primaryNumber", <<>>),
         throws |-> throws_code,
         throws_desc |-> ThrowsDesc(throws_code)]

\* get_pitcher_details(pitcher_id), given what the people endpoint did
get_pitcher_details(pitcher_id, r) ==
    LET c == <<PeopleCall(pitcher_id)>> IN
    IF r.raises
    THEN IF IsRequestException(r.exc)
         THEN Res(None, <<<<"Error", "fetching", "pitcher", "details:">> \o r.exc.text>>, c)
         ELSE Esc(r.exc, <<>>, c)
    ELSE IF ~HasKey(r.val, "people") \/ r.val.people = <<>>
         THEN Res(None, <<>>, c)
         ELSE Res(Some(PitcherDetailsOf(r.val.people[1])), <<>>, c)

----------------------------------------------------------------------------
(* get_pitchers_from_schedule *)

\* lines 221-227 with the label get_pitcher_details gives an unknown hand:
\* C26 does not hold of it
create_pitcher_info_unknown_hand(name) ==
    IF name = None \/ Val(name) = <<>>
    THEN None
    ELSE Some([name |-> Val(name), jersey |-> <<>>, throws |-> <<>>,
               throws_desc |-> <<"Unknown">>])

\* create_pitcher_info(name): name is what dict.get returned
create_pitcher_info(name) ==
    IF name = None \/ Val(name) = <<>>
    THEN None
    ELSE Some([name |-> Val(name), jersey |-> <<>>, throws |-> <<>>,
               throws_desc |-> <<>>])

\* the game records statsapi.schedule(game_id=...) can hold
ProbableGame(home_id, hp, ap) ==
    [game_id |-> 778518, home_id |-> home_id, away_id |-> 141 + 121 - home_id,
     home_name |-> IF home_id = 121 THEN Mets ELSE BlueJays,
     away_name |-> IF home_id = 121 THEN BlueJays ELSE Mets,
     home_probable_pitcher |-> hp, away_probable_pitcher |-> ap]

ProbableNames == { <<"Kodai", "Senga">>, <<>> }

ProbableGamePool ==
    {ProbableGame(h, hp, ap) : h \in {121, 141}, hp \in ProbableNames,
                               ap \in {<<"Jose", "Berrios">>}}
        \cup { [game_id |-> 778518, home_id |-> 121, home_name |-> Mets,
                away_probable_pitcher |-> <<"Jose", "Berrios">>] }

\* what statsapi.schedule(game_id=..., sportId=1) can do
ScheduleByGameResponses ==
    {Raised(Exc("Exception", t)) : t \in ExcTexts}
        \cup {Returned(<<>>)}
        \cup {Returned(<<g>>) : g \in ProbableGamePool}

ScheduleByGameCall(game_id) ==
    [fn |-> "statsapi.schedule(game_id)", ids |-> <<game_id>>, date |-> None]

OtherSide(side) == IF side = "home" THEN "away" ELSE "home"

\* lines 201-244: the pitchers dict built from the game record
PitchersFromGame(g, tid) ==
    LET team_side == IF Get(g, "home_id") = Some(tid) THEN "home" ELSE "away"
        opponent_side == OtherSide(team_side)
        pitcher_map == [home |-> Get(g, "home_probable_pitcher"),
                        away |-> Get(g, "away_probable_pitcher")]
    IN  [team |-> create_pitcher_info(pitcher_map[team_side]),
         opponent |-> create_pitcher_info(pitcher_map[opponent_side]),
         team_name |-> Get(g, team_side \o "_name"),
         opponent_team |-> Get(g, opponent_side \o "_name")]

\* get_pitchers_from_schedule(game_id, team_id), given what statsapi did
get_pitchers_from_schedule(gid, tid, r) ==
    LET c == <<ScheduleByGameCall(gid)>> IN
    IF r.raises
    THEN Res(None, <<<<"Error", "fetching", "probable", "pitchers", "from",
                       "schedule:">> \o r.exc.text>>, c)
    ELSE IF r.val = <<>> THEN Res(None, <<>>, c)
    ELSE Res(Some(PitchersFromGame(r.val[1], tid)), <<>>, c)


----------------------------------------------------------------------------
(* The boxscore document and the paths read from it *)

\* d[k1][k2]...: the value, or the first key that is missing (the KeyError)
RECURSIVE PathGet(_, _)
PathGet(d, ks) ==
    IF ks = <<>> THEN [ok |-> TRUE, val |-> d]
    ELSE IF HasKey(d, Head(ks)) THEN PathGet(d[Head(ks)], Tail(ks))
    ELSE [ok |-> FALSE, key |-> Head(ks)]

\* the reads of a straight-line block, in the order the block makes them:
\* None when every one succeeds, else the KeyError of the first that fails
RECURSIVE FirstKeyError(_, _)
FirstKeyError(d, paths) ==
    IF paths = <<>> THEN None
    ELSE IF PathGet(d, Head(paths)).ok THEN FirstKeyError(d, Tail(paths))
    ELSE Some(KeyErr(PathGet(d, Head(paths)).key))

BoxscoreCall(game_id) == [fn |-> "GET boxscore", ids |-> <<game_id>>, date |-> None]

\* f"ID{player_id}"
IDKey(player_id) == "ID" \o ToString(player_id)

\* A dict whose iteration order matters is the sequence of its items.
Item(k, v) == [key |-> k, val |-> v]
ItemsHasKey(items, k) == \E i \in DOMAIN items : items[i].key = k
ItemsGet(items, k) == items[CHOOSE i \in DOMAIN items : items[i].key = k].val

----------------------------------------------------------------------------
(* get_pitchers_from_boxscore *)

Digits == <<"0", "1", "2", "3", "4", "5", "6", "7", "8", "9">>
IsDigit(c) == \E i \in DOMAIN Digits : Digits[i] = c
DigitVal(c) == (CHOOSE i \in DOMAIN Digits : Digits[i] = c) - 1

\* float(text) for the literals "d.d" the boxscore uses, in tenths; None
\* stands for the ValueError float() raises on any other text of the pool
ParseFloat(cs) ==
    IF Len(cs) = 3 /\ IsDigit(cs[1]) /\ cs[2] = "." /\ IsDigit(cs[3])
    THEN Some(10 * DigitVal(cs[1]) + DigitVal(cs[3]))
    ELSE None

\* float(player['stats']['pitching'].get('inningsPitched', 0))
InningsOf(pitching) ==
    IF HasKey(pitching, "inningsPitched") THEN ParseFloat(pitching.inningsPitched)
    ELSE Some(0)

\* the reads of line 291 and of line 299
PositionPaths == << <<"position">>, <<"position", "abbreviation">> >>
PersonIdPaths == << <<"person">>, <<"person", "id">> >>

\* the outcome of one side's scan: the exception it raised, or the id selected
Scanned(e, pitcher_id) == [exc |-> e, pitcher_id |-> pitcher_id]

RECURSIVE ScanPitchers(_, _, _, _)

\* lines 296-301 with `>=` for `>` at line 297, the last of several equal
\* innings being kept: C24 does not hold of it
ScanInningsLastOfEqual(items, i, max_innings, pitcher_id, player, innings) ==
    IF innings = None \/ Val(innings) < max_innings
    THEN ScanPitchers(items, i + 1, max_innings, pitcher_id)
    ELSE IF FirstKeyError(player, PersonIdPaths) # None
    THEN Scanned(FirstKeyError(player, PersonIdPaths), None)
    ELSE ScanPitchers(items, i + 1, Val(innings), Some(player.person.id))

\* lines 296-301 for a pitcher whose innings parsed to `innings` (None: the
\* ValueError that is passed over)
ScanInnings(items, i, max_innings, pitcher_id, player, innings) ==
    IF innings = None \/ Val(innings) <= max_innings
    THEN ScanPitchers(items, i + 1, max_innings, pitcher_id)
    ELSE IF FirstKeyError(player, PersonIdPaths) # None
    THEN Scanned(FirstKeyError(player, PersonIdPaths), None)
    ELSE ScanPitchers(items, i + 1, Val(innings), Some(player.person.id))

\* lines 291-301 for one player
ScanPlayer(items, i, max_innings, pitcher_id, player) ==
    IF FirstKeyError(player, PositionPaths) # None
    THEN Scanned(FirstKeyError(player, PositionPaths), None)
    ELSE IF player.position.abbreviation # "P"
              \/ ~HasKey(player, "stats") \/ ~HasKey(player.stats, "pitching")
    THEN ScanPitchers(items, i + 1, max_innings, pitcher_id)
    ELSE ScanInnings(items, i, max_innings, pitcher_id, player,
                     InningsOf(player.stats.pitching))

\* lines 290-301: the scan of one side's players from item i on, with the
\* running maximum and the id selected so far
ScanPitchers(items, i, max_innings, pitcher_id) ==
    IF i > Len(items) THEN Scanned(None, pitcher_id)
    ELSE ScanPlayer(items, i, max_innings, pitcher_id, items[i].val)

\* lines 303-305: the pitcher record of a side whose scan ended as `scan`;
\* rp is what the people endpoint does if it is asked
AfterScan(scan, rp) ==
    IF scan.exc # None THEN Esc(Val(scan.exc), <<>>, <<>>)
    ELSE IF scan.pitcher_id = None \/ Val(scan.pitcher_id) = 0
    THEN Res(None, <<>>, <<>>)
    ELSE get_pitcher_details(Val(scan.pitcher_id), rp)

\* lines 286-305 for one side
SidePitcher(side, rp) ==
    IF ~HasKey(side, "players") THEN Esc(KeyErr("players"), <<>>, <<>>)
    ELSE AfterScan(ScanPitchers(side.players, 1, 0, None), rp)

\* lines 271, 331 and 466 with the two sides exchanged: C23 does not hold
\* of it
SideOfExchanged(home_team_id, tid) == IF home_team_id = tid THEN "away" ELSE "home"

\* team_side of lines 271, 331 and 466
SideOf(home_team_id, tid) == IF home_team_id = tid THEN "home" ELSE "away"

\* the reads of lines 268-271 and 463-466
HomeIdPaths == << <<"teams">>, <<"teams", "home">>, <<"teams", "home", "team">>,
                  <<"teams", "home", "team", "id">> >>

\* lines 275-280 and 307: the dict returned, t and o being the two sides' outcomes
PitchersDict(teams, team_side, t, o) ==
    IF o.exc # None THEN Esc(Val(o.exc), t.out \o o.out, t.calls \o o.calls)
    ELSE Res(Some([team |-> t.ret, opponent |-> o.ret,
                   team_name |-> Some(teams[team_side].team.name),
                   opponent_team |-> Some(teams[OtherSide(team_side)].team.name)]),
             t.out \o o.out, t.calls \o o.calls)

\* lines 285-305: the opponent's side after the subject side ended as t;
\* people[i] is what the people endpoint does on the i-th lookup
OpponentPitcher(teams, team_side, people, t) ==
    IF t.exc # None THEN t
    ELSE PitchersDict(teams, team_side, t,
             SidePitcher(teams[OtherSide(team_side)], people[Len(t.calls) + 1]))

\* lines 274-305 once the subject's side is known
PitchersOfSides(teams, team_side, people) ==
    IF FirstKeyError(teams, << <<team_side, "team", "name">>,
                               <<OtherSide(team_side), "team", "name">> >>) # None
    THEN Esc(Val(FirstKeyError(teams, << <<team_side, "team", "name">>,
                               <<OtherSide(team_side), "team", "name">> >>)), <<>>, <<>>)
    ELSE OpponentPitcher(teams, team_side, people,
                         SidePitcher(teams[team_side], people[1]))

\* lines 268-307, on the decoded document
PitchersFromBoxscore(data, tid, people) ==
    IF FirstKeyError(data, HomeIdPaths) # None
    THEN Esc(Val(FirstKeyError(data, HomeIdPaths)), <<>>, <<>>)
    ELSE PitchersOfSides(data.teams, SideOf(data.teams.home.team.id, tid), people)

\* a resolver's outcome r with the calls c made before it
After(c, r) == [ret |-> r.ret, exc |-> r.exc, out |-> r.out, calls |-> c \o r.calls]

\* get_pitchers_from_boxscore(game_id, team_id), given what the boxscore
\* endpoint and the people endpoint do
get_pitchers_from_boxscore(gid, tid, rb, people) ==
    IF rb.raises
    THEN IF IsRequestException(rb.exc)
         THEN Res(None, <<<<"Error", "fetching", "pitchers", "from", "boxscore:">>
                           \o rb.exc.text>>, <<BoxscoreCall(gid)>>)
         ELSE Esc(rb.exc, <<>>, <<BoxscoreCall(gid)>>)
    ELSE After(<<BoxscoreCall(gid)>>, PitchersFromBoxscore(rb.val, tid, people))

Call(fn, ids) == [fn |-> fn, ids |-> ids, date |-> None]

\* line 175 with "In Progress" left out of the list: C12 does not hold of it
get_probable_pitchers_final_only(gid, status, tid, rs, rb, people) ==
    IF status = "Final"
    THEN After(<<Call("get_pitchers_from_boxscore", <<gid, tid>>)>>,
               get_pitchers_from_boxscore(gid, tid, rb, people))
    ELSE After(<<Call("get_pitchers_from_schedule", <<gid, tid>>)>>,
               get_pitchers_from_schedule(gid, tid, rs))

\* get_probable_pitchers(game_id, status, team_id): rs is what
\* statsapi.schedule does, rb and people what the HTTP endpoints do
get_probable_pitchers(gid, status, tid, rs, rb, people) ==
    IF status \in {"Final", "In Progress"}
    THEN After(<<Call("get_pitchers_from_boxscore", <<gid, tid>>)>>,
               get_pitchers_from_boxscore(gid, tid, rb, people))
    ELSE After(<<Call("get_pitchers_from_schedule", <<gid, tid>>)>>,
               get_pitchers_from_schedule(gid, tid, rs))

----------------------------------------------------------------------------
(* get_umpires *)

\* line 154 without the test that the list is not empty: C14 does not hold
\* of it
get_umpires_any_list(gid, r) ==
    IF r.raises
    THEN IF IsRequestException(r.exc)
         THEN Res(None, <<<<"Error", "fetching", "umpire", "data:">> \o r.exc.text>>,
                  <<BoxscoreCall(gid)>>)
         ELSE Esc(r.exc, <<>>, <<BoxscoreCall(gid)>>)
    ELSE IF HasKey(r.val, "officials")
         THEN Res(Some(r.val.officials), <<>>, <<BoxscoreCall(gid)>>)
         ELSE Res(None, <<>>, <<BoxscoreCall(gid)>>)

\* get_umpires(game_id), given what the boxscore endpoint did
get_umpires(gid, r) ==
    LET c == <<BoxscoreCall(gid)>> IN
    IF r.raises
    THEN IF IsRequestException(r.exc)
         THEN Res(None, <<<<"Error", "fetching", "umpire", "data:">> \o r.exc.text>>, c)
         ELSE Esc(r.exc, <<>>, c)
    ELSE IF HasKey(r.val, "officials") /\ r.val.officials # <<>>
         THEN Res(Some(r.val.officials), <<>>, c)
         ELSE Res(None, <<>>, c)

----------------------------------------------------------------------------
(* get_lineup: the statsapi.boxscore_data path *)

\* the hardcoded jersey tables of lines 365-376 and 402-412
TeamJerseys ==
    (<<"Lindor">> :> <<"12">>) @@ (<<"Soto,", "J">> :> <<"22">>)
        @@ (<<"Alonso">> :> <<"20">>) @@ (<<"Nimmo">> :> <<"9">>)
        @@ (<<"Winker">> :> <<"2">>) @@ (<<"Vientos">> :> <<"27">>)
        @@ (<<"Baty">> :> <<"7">>) @@ (<<"Siri">> :> <<"19">>)
        @@ (<<"Senger">> :> <<"30">>) @@ (<<"Acuna">> :> <<"2">>)

OpponentJerseys ==
    (<<"Bichette">> :> <<"11">>) @@ (<<"Guerrero", "Jr.">> :> <<"27">>)
        @@ (<<"Santander">> :> <<"25">>) @@ (<<"Gimenez">> :> <<"0">>)
        @@ (<<"Kirk">> :> <<"30">>) @@ (<<"Clement">> :> <<"22">>)
        @@ (<<"Schneider">> :> <<"41">>) @@ (<<"Heineman">> :> <<"55">>)
        @@ (<<"Straw">> :> <<"7">>)

\* line 348 without the substitution test: C11 does not hold of it
IsStarterAnyRole(b) == GetOr(b, "personId", 0) > 0

\* b.get('personId', 0) > 0 and not b.get('substitution')
IsStarter(b) ==
    /\ GetOr(b, "personId", 0) > 0
    /\ ~GetOr(b, "substitution", FALSE)

\* [b for b in batters if ...]
RECURSIVE Starters(_)
Starters(batters) ==
    IF batters = <<>> THEN <<>>
    ELSE IF IsStarter(Head(batters)) THEN <<Head(batters)>> \o Starters(Tail(batters))
    ELSE Starters(Tail(batters))

\* x.get('battingOrder', '999'): the code as its characters
SortKeyOf(b) == GetOr(b, "battingOrder", <<"9", "9", "9">>)

\* Python's str `<` on two codes made of digits
RECURSIVE CodeLess(_, _)
CodeLess(a, b) ==
    IF b = <<>> THEN FALSE
    ELSE IF a = <<>> THEN TRUE
    ELSE IF Head(a) = Head(b) THEN CodeLess(Tail(a), Tail(b))
    ELSE DigitVal(Head(a)) < DigitVal(Head(b))

\* list.sort(key=...) is stable: b goes after the entries whose key is not greater
RECURSIVE InsertByCode(_, _)
InsertByCode(b, s) ==
    IF s = <<>> THEN <<b>>
    ELSE IF CodeLess(SortKeyOf(b), SortKeyOf(Head(s))) THEN <<b>> \o s
    ELSE <<Head(s)>> \o InsertByCode(b, Tail(s))

\* lines 351 and 390 left out, the starters kept in the order of the batters
\* list: C21 does not hold of it
SortByCodeAsListed(s) == s

RECURSIVE SortByCode(_)
SortByCode(s) ==
    IF s = <<>> THEN <<>>
    ELSE InsertByCode(s[Len(s)], SortByCode(SubSeq(s, 1, Len(s) - 1)))

\* boxscore['playerInfo'].get(f"ID{personId}", {}).get('fullName', player['name'])
FullNameOf(playerInfo, player) ==
    IF HasKey(playerInfo, IDKey(player.personId))
         /\ HasKey(playerInfo[IDKey(player.personId)], "fullName")
    THEN playerInfo[IDKey(player.personId)].fullName
    ELSE player.name

\* the rank given to the starter at 0-based index i of the sorted list
\* (lines 381 and 417)
RankOfIndex(i) == i + 1

\* lines 357-383 and 394-419 for the starter at 0-based index i, rest being
\* the entries of the starters after it; None stands for the KeyError of a
\* missing name
StarterEntry(player, i, playerInfo, jerseys, rest) ==
    IF ~HasKey(player, "position") \/ player.position = "" THEN rest
    ELSE IF ~HasKey(player, "name") \/ rest = None THEN None
    ELSE Some(<<[name |-> FullNameOf(playerInfo, player),
                 position |-> player.position,
                 batting_order |-> RankOfIndex(i),
                 jersey |-> GetOr(jerseys, player.name, <<>>)]>> \o Val(rest))

\* lines 356-383 and 393-419: the entries built from the sorted starters
\* from 0-based index i on
RECURSIVE StarterEntries(_, _, _, _)
StarterEntries(starters, i, playerInfo, jerseys) ==
    IF i >= Len(starters) THEN Some(<<>>)
    ELSE StarterEntry(starters[i + 1], i, playerInfo, jerseys,
                      StarterEntries(starters, i + 1, playerInfo, jerseys))

\* some starter reaches the read of boxscore['playerInfo'] (lines 362, 399)
ReadsPlayerInfo(starters) ==
    \E i \in DOMAIN starters :
        HasKey(starters[i], "position") /\ starters[i].position # ""

\* lines 426-435 without the check of lines 421-424, an empty lineup being
\* returned as data: C20 does not hold of it
LineupDataUnchecked(team_info, ours, team_lineup, opponent_lineup) ==
    IF team_lineup = None \/ opponent_lineup = None THEN None
    ELSE Some([team |-> [name |-> team_info[ours].teamName,
                         lineup |-> Val(team_lineup)],
               opponent |-> [team |-> team_info[OtherSide(ours)].teamName,
                             lineup |-> Val(opponent_lineup)]])

\* lines 421-435: the fallback when a lineup is empty, else the data returned
LineupData(team_info, ours, team_lineup, opponent_lineup) ==
    IF team_lineup = None \/ opponent_lineup = None THEN None
    ELSE IF Val(team_lineup) = <<>> \/ Val(opponent_lineup) = <<>> THEN None
    ELSE Some([team |-> [name |-> team_info[ours].teamName,
                         lineup |-> Val(team_lineup)],
               opponent |-> [team |-> team_info[OtherSide(ours)].teamName,
                             lineup |-> Val(opponent_lineup)]])

\* lines 356-435 on the two sorted lists of starters
LineupOfStarters(b, ours, starters, opponent_starters) ==
    IF (ReadsPlayerInfo(starters) \/ ReadsPlayerInfo(opponent_starters))
         /\ ~HasKey(b, "playerInfo")
    THEN None
    ELSE LineupData(b.teamInfo, ours,
             StarterEntries(starters, 0, GetOr(b, "playerInfo", EmptyDict),
                            TeamJerseys),
             StarterEntries(opponent_starters, 0, GetOr(b, "playerInfo", EmptyDict),
                            OpponentJerseys))

\* the reads of lines 334-339 and 426-431 for the subject's side `ours`
BattersPaths(ours) ==
    << <<ours \o "Batters">>, <<OtherSide(ours) \o "Batters">>,
       <<"teamInfo", ours, "teamName">>,
       <<"teamInfo", OtherSide(ours), "teamName">> >>

\* lines 334-435 once the subject's side is known
LineupOfSides(b, ours) ==
    IF FirstKeyError(b, BattersPaths(ours)) # None THEN None
    ELSE LineupOfStarters(b, ours,
             SortByCode(Starters(b[ours \o "Batters"])),
             SortByCode(Starters(b[OtherSide(ours) \o "Batters"])))

\* the reads of lines 330-331
HomeInfoPaths == << <<"teamInfo">>, <<"teamInfo", "home">>,
                    <<"teamInfo", "home", "id">> >>

\* lines 330-435 on the dict statsapi.boxscore_data returned: Some(lineup
\* data), or None when the block raises or a lineup is empty, which both
\* end in fallback_get_lineup
LineupFromBoxscoreData(b, tid) ==
    IF FirstKeyError(b, HomeInfoPaths) # None THEN None
    ELSE LineupOfSides(b, SideOf(b.teamInfo.home.id, tid))

BoxscoreDataCall(game_id) ==
    [fn |-> "statsapi.boxscore_data", ids |-> <<game_id>>, date |-> None]

\* lines 325-440 up to the return or the call of fallback_get_lineup: Some(
\* lineup data) when get_lineup returns it, None when it calls the fallback
get_lineup_primary(tid, r) ==
    IF r.raises THEN None ELSE LineupFromBoxscoreData(r.val, tid)


----------------------------------------------------------------------------
(* fallback_get_lineup *)

\* the rank given to the entry appended to a lineup that holds n entries
\* (lines 490 and 503)
RankAfter(n) == n + 1

\* the outcome of one side's loop: the KeyError it raised, or the lineup built
Looped(e, entries) == [exc |-> e, lineup |-> entries]

\* the reads of lines 486-488 and 499-501
PlayerPaths == << <<"position">>, <<"position", "abbreviation">>, <<"person">>,
                  <<"person", "fullName">> >>

RECURSIVE FallbackEntries(_, _, _)

\* lines 486-492 with the rank taken from the place in battingOrder, zeros
\* counted: C22 does not hold of it
FallbackPlayerRankedByPlace(side, i, acc, player) ==
    IF FirstKeyError(player, PlayerPaths) # None
    THEN Looped(FirstKeyError(player, PlayerPaths), acc)
    ELSE FallbackEntries(side, i + 1,
             Append(acc, [name |-> player.person.fullName,
                          position |-> player.position.abbreviation,
                          batting_order |-> i,
                          jersey |-> GetOr(player, "jerseyNumber", <<>>)]))

\* lines 486-492 and 499-505 for one player of the players dict
FallbackPlayer(side, i, acc, player) ==
    IF FirstKeyError(player, PlayerPaths) # None
    THEN Looped(FirstKeyError(player, PlayerPaths), acc)
    ELSE FallbackEntries(side, i + 1,
             Append(acc, [name |-> player.person.fullName,
                          position |-> player.position.abbreviation,
                          batting_order |-> RankAfter(Len(acc)),
                          jersey |-> GetOr(player, "jerseyNumber", <<>>)]))

\* lines 482-492 and 495-505: the loop over one side's battingOrder from
\* position i on, acc being the lineup built so far; side is the side's dict
FallbackEntries(side, i, acc) ==
    IF i > Len(side.battingOrder) THEN Looped(None, acc)
    ELSE IF side.battingOrder[i] = 0 THEN FallbackEntries(side, i + 1, acc)
    ELSE IF ~HasKey(side, "players") THEN Looped(Some(KeyErr("players")), acc)
    ELSE IF ~ItemsHasKey(side.players, IDKey(side.battingOrder[i]))
    THEN Looped(Some(KeyErr(IDKey(side.battingOrder[i]))), acc)
    ELSE FallbackPlayer(side, i, acc,
                        ItemsGet(side.players, IDKey(side.battingOrder[i])))

\* line 520 worded as line 479 is, "not yet available": C30 does not hold
\* of it
LineupKeyErrorNotYet(e) ==
    <<None, Some(<<"Lineup", "data", "not", "yet", "available:">> \o e.text)>>

\* the except KeyError branch (line 520)
LineupKeyError(e) ==
    <<None, Some(<<"Lineup", "data", "not", "available", "yet:">> \o e.text)>>

\* the reads of lines 479, 509 and 513
TeamNamePaths == << <<"team">>, <<"team", "name">> >>

\* line 479 with the opponent's name left out of the message: C9 does not
\* hold of it
LineupNotYetUnnamed(opponent_team) ==
    <<None, Some(<<"Lineup", "not", "yet", "available", "for", "this", "game">>)>>

\* lines 478-479: the subject's batting order is missing or empty
LineupNotYet(opponent_team) ==
    IF FirstKeyError(opponent_team, TeamNamePaths) # None
    THEN LineupKeyError(Val(FirstKeyError(opponent_team, TeamNamePaths)))
    ELSE <<None, Some(<<"Lineup", "not", "yet", "available", "for", "this", "game",
                        "against">> \o opponent_team.team.name)>>

\* lines 507-516 returning the subject's lineup for both sides: C28 does not
\* hold of it
LineupTupleOursTwice(our_team, opponent_team, ours, theirs) ==
    IF theirs.exc # None THEN LineupKeyError(Val(theirs.exc))
    ELSE IF FirstKeyError(our_team, TeamNamePaths) # None
    THEN LineupKeyError(Val(FirstKeyError(our_team, TeamNamePaths)))
    ELSE IF FirstKeyError(opponent_team, TeamNamePaths) # None
    THEN LineupKeyError(Val(FirstKeyError(opponent_team, TeamNamePaths)))
    ELSE <<Some([team |-> [name |-> our_team.team.name, lineup |-> ours.lineup],
                 opponent |-> [team |-> opponent_team.team.name,
                               lineup |-> ours.lineup]]),
           None>>

\* lines 507-516: the tuple returned after both loops, ours and theirs being
\* their outcomes
LineupTuple(our_team, opponent_team, ours, theirs) ==
    IF theirs.exc # None THEN LineupKeyError(Val(theirs.exc))
    ELSE IF FirstKeyError(our_team, TeamNamePaths) # None
    THEN LineupKeyError(Val(FirstKeyError(our_team, TeamNamePaths)))
    ELSE IF FirstKeyError(opponent_team, TeamNamePaths) # None
    THEN LineupKeyError(Val(FirstKeyError(opponent_team, TeamNamePaths)))
    ELSE <<Some([team |-> [name |-> our_team.team.name, lineup |-> ours.lineup],
                 opponent |-> [team |-> opponent_team.team.name,
                               lineup |-> theirs.lineup]]),
           None>>

\* lines 495-516 after the subject's loop ended as ours
OpponentLineup(our_team, opponent_team, ours) ==
    IF ours.exc # None THEN LineupKeyError(Val(ours.exc))
    ELSE IF ~HasKey(opponent_team, "battingOrder")
    THEN LineupKeyError(KeyErr("battingOrder"))
    ELSE LineupTuple(our_team, opponent_team, ours,
                     FallbackEntries(opponent_team, 1, <<>>))

\* lines 474-516 on the two sides' dicts
LineupOfTeams(our_team, opponent_team) ==
    IF ~HasKey(our_team, "battingOrder") \/ our_team.battingOrder = <<>>
    THEN LineupNotYet(opponent_team)
    ELSE OpponentLineup(our_team, opponent_team,
                        FallbackEntries(our_team, 1, <<>>))

\* lines 466-516 once the subject's side is known
LineupOfTeamSide(teams, team_side) ==
    IF FirstKeyError(teams, << <<team_side>>, <<OtherSide(team_side)>> >>) # None
    THEN LineupKeyError(Val(FirstKeyError(teams,
                                << <<team_side>>, <<OtherSide(team_side)>> >>)))
    ELSE LineupOfTeams(teams[team_side], teams[OtherSide(team_side)])

\* lines 463-516 on the decoded document: the tuple returned
LineupFromBoxscore(data, tid) ==
    IF FirstKeyError(data, HomeIdPaths) # None
    THEN LineupKeyError(Val(FirstKeyError(data, HomeIdPaths)))
    ELSE LineupOfTeamSide(data.teams, SideOf(data.teams.home.team.id, tid))

\* fallback_get_lineup asking the boxscore endpoint a second time after a
\* transport failure: C27 does not hold of it
fallback_get_lineup_retrying(gid, tid, r) ==
    LET c == <<[fn |-> "fallback_get_lineup", ids |-> <<gid, tid>>, date |-> None],
               BoxscoreCall(gid)>> IN
    IF r.raises
    THEN IF IsRequestException(r.exc)
         THEN Res(<<None, Some(<<"Error", "fetching", "lineup", "data:">> \o r.exc.text)>>,
                  <<>>, c \o <<BoxscoreCall(gid)>>)
         ELSE Esc(r.exc, <<>>, c)
    ELSE Res(LineupFromBoxscore(r.val, tid), <<>>, c)

\* fallback_get_lineup(game_id, team_id), given what the boxscore endpoint did
fallback_get_lineup(gid, tid, r) ==
    LET c == <<[fn |-> "fallback_get_lineup", ids |-> <<gid, tid>>, date |-> None],
               BoxscoreCall(gid)>> IN
    IF r.raises
    THEN IF IsRequestException(r.exc)
         THEN Res(<<None, Some(<<"Error", "fetching", "lineup", "data:">> \o r.exc.text)>>,
                  <<>>, c)
         ELSE Esc(r.exc, <<>>, c)
    ELSE Res(LineupFromBoxscore(r.val, tid), <<>>, c)


----------------------------------------------------------------------------
(* Rendering *)

\* str(x) of an optional token string: None prints as "None"
PyStr(o) == IF o = None THEN <<"None">> ELSE Val(o)

\* format_pitcher_info(pitcher) for a pitcher dict
format_pitcher_info(p) ==
    (IF p.jersey # <<>> THEN <<"#">> \o p.jersey ELSE <<>>)
        \o p.name
        \o (IF p.throws_desc # <<>> THEN <<"(">> \o p.throws_desc \o <<")">> ELSE <<>>)

\* format_player_info(player)
format_player_info(p) ==
    <<ToString(p.batting_order) \o ".">>
        \o (IF p.jersey # <<>> THEN <<"#">> \o p.jersey ELSE <<>>)
        \o p.name \o <<"(", p.position, ")">>

\* lines 599-607: the game header
HeaderLines(date, team_names, venue_name) ==
    << IF date = None THEN <<"=====", "TODAY'S", "GAME", "=====">>
       ELSE <<"=====", "GAME", "FOR">> \o Val(date) \o <<"=====">>,
       team_names.home \o <<"vs">> \o team_names.away >>
    \o (IF venue_name # None /\ Val(venue_name) # <<>>
        THEN << <<"Ballpark:">> \o Val(venue_name) >> ELSE <<>>)

NotAvailable == <<"Starting", "pitcher", "information", "not", "available">>

\* lines 610-624 printing the section only when both records are there:
\* C25 does not hold of it
PitcherLinesBothOrNone(p) ==
    IF p = None \/ Val(p).team = None \/ Val(p).opponent = None THEN <<>>
    ELSE << <<"-----", "STARTING", "PITCHERS", "-----">>,
            PyStr(Val(p).team_name) \o <<":">> \o format_pitcher_info(Val(Val(p).team)),
            PyStr(Val(p).opponent_team) \o <<":">>
                \o format_pitcher_info(Val(Val(p).opponent)) >>

\* lines 610-624: the pitcher section
PitcherLines(p) ==
    IF p = None THEN <<>>
    ELSE << <<"-----", "STARTING", "PITCHERS", "-----">>,
            PyStr(Val(p).team_name) \o <<":">>
                \o (IF Val(p).team # None THEN format_pitcher_info(Val(Val(p).team))
                    ELSE NotAvailable),
            PyStr(Val(p).opponent_team) \o <<":">>
                \o (IF Val(p).opponent # None
                    THEN format_pitcher_info(Val(Val(p).opponent))
                    ELSE NotAvailable) >>

\* lines 637-640 without the "not yet available" test, every message being
\* reported as an error: C15 does not hold of it
LineupLinesAllErrors(abbr, l) ==
    IF l[1] # None
    THEN << <<"-----", abbr, "LINEUP", "-----">> >>
            \o [i \in DOMAIN Val(l[1]).team.lineup |->
                    format_player_info(Val(l[1]).team.lineup[i])]
            \o << <<"-----", "OPPONENT", "LINEUP", "-----">> >>
            \o [i \in DOMAIN Val(l[1]).opponent.lineup |->
                    format_player_info(Val(l[1]).opponent.lineup[i])]
    ELSE IF l[2] # None /\ Val(l[2]) # <<>>
    THEN << <<"Error", "getting", "lineup:">> \o Val(l[2]) >>
    ELSE << <<"Lineups", "not", "yet", "available.">> >>

\* lines 627-640: the lineup section; l is get_lineup's tuple
LineupLines(abbr, l) ==
    IF l[1] # None
    THEN << <<"-----", abbr, "LINEUP", "-----">> >>
            \o [i \in DOMAIN Val(l[1]).team.lineup |->
                    format_player_info(Val(l[1]).team.lineup[i])]
            \o << <<"-----", "OPPONENT", "LINEUP", "-----">> >>
            \o [i \in DOMAIN Val(l[1]).opponent.lineup |->
                    format_player_info(Val(l[1]).opponent.lineup[i])]
    ELSE IF l[2] # None /\ Val(l[2]) # <<>>
              /\ ~Contains(Val(l[2]), <<"not", "yet", "available">>)
    THEN << <<"Error", "getting", "lineup:">> \o Val(l[2]) >>
    ELSE << <<"Lineups", "not", "yet", "available.">> >>

\* lines 645-649: the lines of the umpires from the i-th on
RECURSIVE UmpireRows(_, _)
UmpireRows(us, i) ==
    IF i > Len(us) THEN <<>>
    ELSE (IF HasKey(us[i], "official") /\ HasKey(us[i], "officialType")
          THEN << <<us[i].officialType \o ":">>
                     \o GetOr(us[i].official, "fullName", <<>>) >>
          ELSE <<>>) \o UmpireRows(us, i + 1)

\* lines 643-649: the umpire section
UmpireLines(u) ==
    IF u = None \/ Val(u) = <<>> THEN <<>>
    ELSE << <<"-----", "UMPIRES", "-----">> >> \o UmpireRows(Val(u), 1)


----------------------------------------------------------------------------
(* The inputs of the boxscore-reading resolvers *)

\* every list without repetition of at most n members of pool
RECURSIVE ListsOver(_, _)
ListsOver(pool, n) ==
    IF n = 0 THEN {<<>>}
    ELSE LET shorter == ListsOver(pool, n - 1)
         IN  shorter \cup
             UNION {{Append(l, x) : x \in {y \in pool : \A i \in DOMAIN l : l[i] # y}} :
                        l \in {y \in shorter : Len(y) = n - 1}}

TeamRec(id) == [id |-> id, name |-> IF id = 121 THEN Mets ELSE BlueJays]

\* players of the boxscore document, as the pitcher scan reads them
PitcherRec(id, innings) ==
    [person |-> [id |-> id, fullName |-> <<"Pitcher", ToString(id)>>],
     position |-> [abbreviation |-> "P"],
     stats |-> [pitching |-> [inningsPitched |-> innings]]]

ShortstopRec ==
    [person |-> [id |-> 6, fullName |-> <<"Francisco", "Lindor">>],
     position |-> [abbreviation |-> "SS"], jerseyNumber |-> <<"12">>,
     stats |-> [batting |-> [hits |-> 2]]]

NoPitcherPlayers == << Item("ID6", ShortstopRec) >>
StarterPlayers ==
    << Item("ID2", PitcherRec(2, <<"1", ".", "0">>)),
       Item("ID1", PitcherRec(1, <<"6", ".", "0">>)),
       Item("ID6", ShortstopRec) >>

PitcherDoc(home_id, home_players, away_players) ==
    [teams |-> [home |-> [team |-> TeamRec(home_id), players |-> home_players],
                away |-> [team |-> TeamRec(141 + 121 - home_id),
                          players |-> away_players]]]

\* what GET /api/v1/game/{id}/boxscore can do when the pitchers are read
DriverPitcherBoxscoreResponses ==
    HttpFailures
        \cup {Returned([copyright |-> <<"MLB">>])}
        \cup {Returned(PitcherDoc(h, StarterPlayers, ap)) :
                h \in {121, 141}, ap \in {NoPitcherPlayers, StarterPlayers}}

DriverPeopleResponses ==
    HttpFailures
        \cup {Returned([people |-> <<>>])}
        \cup {Returned([people |-> <<[fullName |-> <<"Kodai", "Senga">>,
                                      primaryNumber |-> <<"34">>,
                                      pitchHand |-> [code |-> <<"R">>]]>>])}

Umpire(name, type) == [official |-> [fullName |-> name], officialType |-> type]

\* what the boxscore endpoint can do when the officials are read
UmpireResponses ==
    HttpFailures
        \cup {Returned([copyright |-> <<"MLB">>])}
        \cup {Returned([officials |-> <<>>])}
        \cup {Returned([officials |-> << Umpire(<<"Ump", "One">>, "Home Plate"),
                                         Umpire(<<"Ump", "Two">>, "First Base") >>])}
        \cup {Returned([officials |-> << Umpire(<<"Ump", "Two">>, "First Base"),
                                         [official |-> [fullName |-> <<"Ump", "One">>]] >>])}

\* the rows of homeBatters / awayBatters: two starters whose codes are not
\* their ranks, a substitute, the header row, a starter without a position,
\* a starter without flags or code, and a row without a name
BatterPool ==
    { [personId |-> 1, name |-> <<"Lindor">>, position |-> "SS",
       battingOrder |-> <<"1", "0", "0">>, substitution |-> FALSE],
      [personId |-> 2, name |-> <<"Baty">>, position |-> "3B",
       battingOrder |-> <<"7", "0", "0">>, substitution |-> FALSE],
      [personId |-> 3, name |-> <<"Nimmo">>, position |-> "LF",
       battingOrder |-> <<"1", "0", "1">>, substitution |-> TRUE],
      [personId |-> 0, name |-> <<"Mets", "Batters">>, position |-> "",
       battingOrder |-> <<>>, substitution |-> FALSE],
      [personId |-> 4, name |-> <<"Soto,", "J">>, position |-> "",
       battingOrder |-> <<"4", "0", "0">>, substitution |-> FALSE],
      [personId |-> 5, name |-> <<"Kirk">>, position |-> "C"],
      [personId |-> 7, position |-> "RF",
       battingOrder |-> <<"2", "0", "0">>, substitution |-> FALSE] }

PlayerInfos ==
    { [ID1 |-> [fullName |-> <<"Francisco", "Lindor">>],
       ID2 |-> [fullName |-> <<"Brett", "Baty">>],
       ID4 |-> [id |-> 4]],
      [ID9 |-> [fullName |-> <<"Nobody">>]] }

BoxscoreDataDoc(home_id, home_batters, away_batters, info) ==
    [teamInfo |-> [home |-> [id |-> home_id,
                             teamName |-> IF home_id = 121 THEN <<"Mets">>
                                          ELSE <<"Blue", "Jays">>],
                   away |-> [id |-> 141 + 121 - home_id,
                             teamName |-> IF home_id = 121 THEN <<"Blue", "Jays">>
                                          ELSE <<"Mets">>]],
     homeBatters |-> home_batters, awayBatters |-> away_batters,
     playerInfo |-> info]

\* documents that lack something lines 330-339 or 362 read
BrokenBoxscoreData ==
    LET b == BoxscoreDataDoc(121, <<>>, <<>>, EmptyDict)
        one == CHOOSE x \in BatterPool : x.personId = 1
    IN  { [homeBatters |-> <<one>>, awayBatters |-> <<one>>],
          [teamInfo |-> [home |-> b.teamInfo.home, away |-> [id |-> 141]],
           homeBatters |-> <<one>>, awayBatters |-> <<one>>,
           playerInfo |-> EmptyDict],
          [teamInfo |-> b.teamInfo, homeBatters |-> <<one>>,
           awayBatters |-> <<one>>] }

\* statsapi.boxscore_data(game_id) raises, or returns a broken document
BoxscoreDataFailures ==
    {Raised(Exc("Exception", <<"API", "failure">>))}
        \cup {Returned(d) : d \in BrokenBoxscoreData}

\* the players dict of one side, as the fallback reads it: a full record, one
\* without a jersey number, one without a position; "ID4" is not in it
LineupPlayers ==
    << Item("ID1", ShortstopRec),
       Item("ID2", [person |-> [id |-> 2, fullName |-> <<"Brett", "Baty">>],
                    position |-> [abbreviation |-> "3B"]]),
       Item("ID3", [person |-> [id |-> 3, fullName |-> <<"Brandon", "Nimmo">>]]) >>

OrderIds == {0, 1, 2, 3, 4}

\* every batting-order list of at most n ids
RECURSIVE Orders(_)
Orders(n) ==
    IF n = 0 THEN {<<>>}
    ELSE LET shorter == Orders(n - 1)
         IN  shorter \cup {Append(l, x) : l \in {y \in shorter : Len(y) = n - 1},
                                          x \in OrderIds}

\* one side of the boxscore document, as the fallback reads it
LineupSides(id, orders) ==
    {[team |-> TeamRec(id), players |-> LineupPlayers]}
        \cup {[team |-> TeamRec(id), players |-> LineupPlayers, battingOrder |-> o] :
                o \in orders}
        \cup {[team |-> [id |-> id], players |-> LineupPlayers, battingOrder |-> o] :
                o \in {<<>>, <<1>>}}
        \cup {[team |-> TeamRec(id), battingOrder |-> o] : o \in {<<0>>, <<1>>}}

\* the boxscore endpoint fails, or answers without both sides
LineupBoxscoreFailures ==
    HttpFailures
        \cup {Returned([copyright |-> <<"MLB">>])}
        \cup {Returned([teams |-> [home |-> hs]]) : hs \in LineupSides(121, {<<1>>})}


----------------------------------------------------------------------------
(* The run: main() and the __main__ block *)

\* the --team values tried: absent (the default applies), or the characters given
TeamArgs ==
    { None, Some(<<"n", "y", "m">>), Some(<<"S", "t", "L">>),
      Some(<<"X", "Y", "Z">>), Some(<<"n", "y", "1">>), Some(<<>>) }

\* the --date values tried
DateArgs == { None, Some(<<"2025-04-15">>) }

DefaultTeam == <<"N", "Y", "M">>

Init ==
    /\ pc = "start"
    /\ argv = None
    /\ team_abbr = None
    /\ team_id = None
    /\ game = None
    /\ pitchers = None
    /\ umpires = None
    /\ lineup = None
    /\ resp = None
    /\ exc = None
    /\ out = <<>>
    /\ calls = <<>>
    /\ exit_status = None

\* line 565 without the list of valid options: C2 does not hold of it
InvalidTeamLineBare(abbr) ==
    <<"Error:", "Invalid", "team", "abbreviation", "'" \o abbr \o "'.">>

\* lines 565-566: the message printed for an unknown abbreviation
InvalidTeamLine(abbr) ==
    <<"Error:", "Invalid", "team", "abbreviation", "'" \o abbr \o "'.",
      "Valid", "options", "are:">> \o SortedTeamKeys

\* line 563 without .upper(): C1 does not hold of it
TeamAbbrAsTyped(team_arg) == Join(team_arg)

\* line 563: team_abbr = args.team.upper()
TeamAbbrOf(team_arg) == Upper(team_arg)

\* lines 556-571: parse the command line, validate the team
ParseArgs ==
    /\ pc = "start"
    /\ \E t \in TeamArgs, d \in DateArgs :
        LET team == IF t = None THEN DefaultTeam ELSE Val(t)
            abbr == TeamAbbrOf(team)
        IN  /\ argv' = Some([team |-> t, date |-> d])
            /\ team_abbr' = Some(abbr)
            /\ IF abbr \notin DOMAIN MLB_TEAMS
               THEN /\ out' = Append(out, InvalidTeamLine(abbr))
                    /\ exit_status' = Some(1)
                    /\ pc' = "exited"
                    /\ team_id' = team_id
               ELSE /\ team_id' = Some(MLB_TEAMS[abbr])
                    /\ out' = Append(out,
                          <<"Fetching">>
                            \o (IF d = None THEN <<"today's">> ELSE <<"the">> \o Val(d))
                            \o <<abbr, "game", "information...">>)
                    /\ exit_status' = exit_status
                    /\ pc' = "get_team_game"
    /\ UNCHANGED <<game, pitchers, umpires, lineup, resp, exc, calls>>

\* lines 578-584: what main prints once the game is found
FoundLines(g) ==
    << <<"Found", "game", "(ID:", ToString(Val(g[1])) \o "),", "Status:", Val(g[2])>> >>
    \o (IF Val(g[2]) \notin {"Final", "In Progress", "Warmup", "Pre-Game", "Scheduled"}
        THEN << <<"Game", "status", "is", "'" \o Val(g[2]) \o "'.", "Lineup", "may",
                  "not", "be", "available.">> >>
        ELSE <<>>)
    \o (IF Val(g[2]) = "Final"
        THEN << <<"Note:", "This", "is", "a", "completed", "game.">> >>
        ELSE <<>>)

\* line 575: what main prints when game_id is None
AbsenceLine(g) == PyStr(g[2])

\* lines 574-576 without the sys.exit(1), the run going on to the fetches
\* when no game was found: C18 does not hold of it
ResolveGameNoExit ==
    /\ pc = "get_team_game"
    /\ \E r \in ScheduleByDateResponses :
        /\ game' = Some(get_team_game(r))
        /\ resp' = Some(r)
        /\ calls' = calls \o
             << [fn |-> "get_team_game", ids |-> <<Val(team_id)>>,
                 date |-> Val(argv).date],
                Call("statsapi.schedule(date)", <<Val(team_id)>>) >>
        /\ out' = IF get_team_game(r)[1] = None
                  THEN Append(out, AbsenceLine(get_team_game(r)))
                  ELSE out \o FoundLines(get_team_game(r))
        /\ exit_status' = exit_status
        /\ pc' = "get_probable_pitchers"
    /\ UNCHANGED <<argv, team_abbr, team_id, pitchers, umpires, lineup, exc>>

\* lines 572-584: resolve the game; leave with status 1 when there is none
ResolveGame ==
    /\ pc = "get_team_game"
    /\ \E r \in ScheduleByDateResponses :
        LET g == get_team_game(r)
        IN  /\ game' = Some(g)
            /\ resp' = Some(r)
            /\ calls' = calls \o
                 << [fn |-> "get_team_game", ids |-> <<Val(team_id)>>,
                     date |-> Val(argv).date],
                    Call("statsapi.schedule(date)", <<Val(team_id)>>) >>
            /\ IF g[1] = None
               THEN /\ out' = Append(out, AbsenceLine(g))
                    /\ exit_status' = Some(1)
                    /\ pc' = "exited"
               ELSE /\ out' = out \o FoundLines(g)
                    /\ exit_status' = exit_status
                    /\ pc' = "get_probable_pitchers"
    /\ UNCHANGED <<argv, team_abbr, team_id, pitchers, umpires, lineup, exc>>

\* what a fetch step of main does with the resolver's outcome r: keep the
\* value, or let the exception escape main
AfterFetch(r, banner, fn, next) ==
    /\ out' = out \o <<banner>> \o r.out
    /\ calls' = calls \o <<Call(fn, <<Val(Val(game)[1])>>)>> \o r.calls
    /\ IF r.exc # None
       THEN /\ exc' = r.exc
            /\ pc' = "raised"
       ELSE /\ exc' = exc
            /\ pc' = next
    /\ UNCHANGED <<argv, team_abbr, team_id, game, exit_status>>

\* lines 587-588: fetch the pitchers
FetchPitchers ==
    /\ pc = "get_probable_pitchers"
    /\ LET gid == Val(Val(game)[1])
           status == Val(Val(game)[2])
       IN  \/ /\ status \in {"Final", "In Progress"}
              /\ \E rb \in DriverPitcherBoxscoreResponses,
                    people \in DriverPeopleResponses \X DriverPeopleResponses :
                  LET r == get_probable_pitchers(gid, status, Val(team_id),
                                                 Returned(<<>>), rb, people)
                      asked == Cardinality({i \in DOMAIN r.calls :
                                               r.calls[i].fn = "GET people"})
                  IN  /\ resp' = Some([boxscore |-> rb,
                                       people |-> SubSeq(people, 1, asked)])
                      /\ pitchers' = r.ret
                      /\ AfterFetch(r, <<"Fetching", "starting", "pitchers...">>,
                                    "get_probable_pitchers", "get_umpires")
           \/ /\ status \notin {"Final", "In Progress"}
              /\ \E rs \in ScheduleByGameResponses :
                  LET r == get_probable_pitchers(gid, status, Val(team_id),
                                                 rs, Returned(EmptyDict), <<>>)
                  IN  /\ resp' = Some([schedule |-> rs])
                      /\ pitchers' = r.ret
                      /\ AfterFetch(r, <<"Fetching", "starting", "pitchers...">>,
                                    "get_probable_pitchers", "get_umpires")
    /\ UNCHANGED <<umpires, lineup>>

\* lines 591-592: fetch the umpires
FetchUmpires ==
    /\ pc = "get_umpires"
    /\ \E ru \in UmpireResponses :
        LET r == get_umpires(Val(Val(game)[1]), ru)
        IN  /\ resp' = Some(ru)
            /\ umpires' = r.ret
            /\ AfterFetch(r, <<"Fetching", "umpire", "information...">>,
                          "get_umpires", "get_lineup")
    /\ UNCHANGED <<pitchers, lineup>>

\* lines 595-596 with 325-440 once statsapi.boxscore_data has answered rd:
\* get_lineup up to its return or its call of fallback_get_lineup
LineupFetched(rd) ==
    LET l == get_lineup_primary(Val(team_id), rd)
        gid == Val(Val(game)[1])
    IN  /\ out' = Append(out, <<"Fetching", "lineup", "information...">>)
        /\ calls' = calls \o <<Call("get_lineup", <<gid, Val(team_id)>>),
                               BoxscoreDataCall(gid)>>
        /\ IF l = None
           THEN /\ lineup' = lineup
                /\ resp' = None
                /\ pc' = "fallback_get_lineup"
           ELSE /\ lineup' = Some(<<l, None>>)
                /\ resp' = Some(rd)
                /\ pc' = "render"

\* lines 595-596 with 325-440: statsapi.boxscore_data does one of failures,
\* or returns a document whose batter lists are drawn from lists and whose
\* playerInfo is drawn from infos, either team at home
FetchLineup(failures, lists, infos) ==
    /\ pc = "get_lineup"
    /\ \/ \E rd \in failures : LineupFetched(rd)
       \/ \E hb \in lists, ab \in lists, h \in {121, 141}, info \in infos :
             LineupFetched(Returned(BoxscoreDataDoc(h, hb, ab, info)))
    /\ UNCHANGED <<argv, team_abbr, team_id, game, pitchers, umpires, exc,
                   exit_status>>

\* lines 424 and 440 with 443-520 once the boxscore endpoint has answered rf
LineupFellBack(rf) ==
    LET r == fallback_get_lineup(Val(Val(game)[1]), Val(team_id), rf)
    IN  /\ resp' = Some(rf)
        /\ calls' = calls \o r.calls
        /\ IF r.exc # None
           THEN /\ exc' = r.exc
                /\ lineup' = lineup
                /\ pc' = "raised"
           ELSE /\ exc' = exc
                /\ lineup' = Some(r.ret)
                /\ pc' = "render"

\* lines 424 and 440 with 443-520: the fallback, whose result get_lineup
\* returns; the boxscore endpoint does one of failures, or answers with a
\* home side drawn from homes and an away side drawn from aways
FallbackLineup(failures, homes, aways) ==
    /\ pc = "fallback_get_lineup"
    /\ \/ \E rf \in failures : LineupFellBack(rf)
       \/ \E hs \in homes, as \in aways :
             LineupFellBack(Returned([teams |-> [home |-> hs, away |-> as]]))
    /\ UNCHANGED <<argv, team_abbr, team_id, game, pitchers, umpires, out,
                   exit_status>>

\* lines 598-649: print the report
Render ==
    /\ pc = "render"
    /\ out' = out
              \o HeaderLines(Val(argv).date, Val(Val(game)[4]), Val(game)[3])
              \o PitcherLines(pitchers)
              \o LineupLines(Val(team_abbr), Val(lineup))
              \o UmpireLines(umpires)
    /\ pc' = "returned"
    /\ UNCHANGED <<argv, team_abbr, team_id, game, pitchers, umpires, lineup,
                   resp, exc, calls, exit_status>>

\* lines 653-654: main() returned; sys.exit(0)
ExitOk ==
    /\ pc = "returned"
    /\ exit_status' = Some(0)
    /\ pc' = "exited"
    /\ UNCHANGED <<argv, team_abbr, team_id, game, pitchers, umpires, lineup,
                   resp, exc, out, calls>>

\* lines 655-657 with the exit status of line 654: C16 does not hold of it
ExitOnExceptionAsSuccess ==
    /\ pc = "raised"
    /\ out' = Append(out, <<"Error:">> \o Val(exc).text)
    /\ exit_status' = Some(0)
    /\ pc' = "exited"
    /\ UNCHANGED <<argv, team_abbr, team_id, game, pitchers, umpires, lineup,
                   resp, exc, calls>>

\* lines 655-657: an exception escaped main(); print it, sys.exit(1)
ExitOnException ==
    /\ pc = "raised"
    /\ out' = Append(out, <<"Error:">> \o Val(exc).text)
    /\ exit_status' = Some(1)
    /\ pc' = "exited"
    /\ UNCHANGED <<argv, team_abbr, team_id, game, pitchers, umpires, lineup,
                   resp, exc, calls>>

\* the batter lists the run draws its boxscore_data documents from
DriverBatterLists ==
    { <<>>,
      << CHOOSE x \in BatterPool : x.personId = 4,
         CHOOSE x \in BatterPool : x.personId = 1 >> }

\* the playerInfo of the run's boxscore_data documents
DriverPlayerInfos == {EmptyDict}

\* the boxscore endpoint fails, or answers without its teams, when the run's
\* fallback reads it
DriverLineupFailures == HttpFailures \cup {Returned([copyright |-> <<"MLB">>])}

\* the home and away sides of the boxscore documents the run's fallback reads
DriverHomeSides ==
    { [team |-> TeamRec(121), players |-> LineupPlayers],
      [team |-> TeamRec(121), players |-> LineupPlayers,
       battingOrder |-> <<0, 1, 2>>] }

DriverAwaySides ==
    { [team |-> TeamRec(141), players |-> LineupPlayers],
      [team |-> TeamRec(141), players |-> LineupPlayers, battingOrder |-> <<>>],
      [team |-> TeamRec(141), players |-> LineupPlayers,
       battingOrder |-> <<2, 1>>],
      [team |-> TeamRec(141), players |-> LineupPlayers,
       battingOrder |-> <<4>>] }

Next ==
    \/ ParseArgs
    \/ ResolveGame
    \/ FetchPitchers
    \/ FetchUmpires
    \/ FetchLineup(BoxscoreDataFailures, DriverBatterLists, DriverPlayerInfos)
    \/ FallbackLineup(DriverLineupFailures, DriverHomeSides, DriverAwaySides)
    \/ Render
    \/ ExitOk
    \/ ExitOnException

Spec == Init /\ [][Next]_vars


----------------------------------------------------------------------------
(* get_lineup called on its own, as test_unit.py calls it: the game is      *)
(* resolved, the batter lists and batting orders range over every list of   *)
(* at most MaxBatters rows.                                                 *)

InitLineup ==
    /\ pc = "get_lineup"
    /\ argv = Some([team |-> None, date |-> None])
    /\ \E t \in {"NYM", "TOR"} :
        /\ team_abbr = Some(t)
        /\ team_id = Some(MLB_TEAMS[t])
    /\ game = Some(TeamGameFrom(FullGame("Scheduled")))
    /\ pitchers = None
    /\ umpires = None
    /\ lineup = None
    /\ resp = None
    /\ exc = None
    /\ out = <<>>
    /\ calls = <<>>
    /\ exit_status = None

\* the batter lists and the sides tried when get_lineup is called alone
LineupLists == ListsOver(BatterPool, MaxBatters)
MetsSides == LineupSides(121, Orders(MaxBatters))
BlueJaysSides == LineupSides(141, Orders(MaxBatters))

\* statsapi.boxscore_data fails or returns any two of LineupLists, and the
\* boxscore endpoint fails or answers with one of MetsSides and one of
\* BlueJaysSides, either one at home
NextLineup ==
    \/ FetchLineup(BoxscoreDataFailures, LineupLists, PlayerInfos)
    \/ FallbackLineup(LineupBoxscoreFailures, MetsSides, BlueJaysSides)
    \/ FallbackLineup(LineupBoxscoreFailures, BlueJaysSides, MetsSides)

SpecLineup == InitLineup /\ [][NextLineup]_vars

----------------------------------------------------------------------------
(* get_pitcher_details called on its own, as test_unit.py calls it *)

\* the pitcher ids tried
PitcherIds == {592789, 605483, 656849, 660271}

InitDetails ==
    /\ pc = "get_pitcher_details"
    /\ argv = None
    /\ team_abbr = None
    /\ team_id = None
    /\ game = None
    /\ pitchers = None
    /\ umpires = None
    /\ lineup = None
    /\ resp = None
    /\ exc = None
    /\ out = <<>>
    /\ calls = <<>>
    /\ exit_status = None

\* the call ended as d, having received r: pitchers holds what it returned
DetailsFetched(d, r) ==
    /\ resp' = Some(r)
    /\ pitchers' = d.ret
    /\ out' = out \o d.out
    /\ calls' = calls \o d.calls
    /\ exc' = d.exc
    /\ pc' = IF d.exc = None THEN "returned" ELSE "raised"
    /\ UNCHANGED <<argv, team_abbr, team_id, game, umpires, lineup, exit_status>>

\* lines 94-135: one call of get_pitcher_details
PitcherDetails ==
    /\ pc = "get_pitcher_details"
    /\ \E id \in PitcherIds, r \in PeopleResponses :
          DetailsFetched(get_pitcher_details(id, r), r)

NextDetails == PitcherDetails

SpecDetails == InitDetails /\ [][NextDetails]_vars

----------------------------------------------------------------------------
(* get_pitchers_from_boxscore called on its own, the subject side's players *)
(* ranging over every list of at most MaxPitchers players.                  *)

MaxPitchers == 3

\* the players the scan can meet: pitchers with 6.0, 1.0, 6.0 again, an
\* innings text float() rejects and 0.0 innings, a pitcher without stats,
\* and a shortstop
ScanPool ==
    { Item("ID1", PitcherRec(1, <<"6", ".", "0">>)),
      Item("ID2", PitcherRec(2, <<"1", ".", "0">>)),
      Item("ID3", PitcherRec(3, <<"6", ".", "0">>)),
      Item("ID4", PitcherRec(4, <<"-", ".", "-">>)),
      Item("ID5", PitcherRec(5, <<"0", ".", "0">>)),
      Item("ID7", [person |-> [id |-> 7, fullName |-> <<"Pitcher", "7">>],
                   position |-> [abbreviation |-> "P"]]),
      Item("ID6", ShortstopRec) }

\* what the boxscore endpoint can do when get_pitchers_from_boxscore is
\* called alone
ScanResponses ==
    HttpFailures
        \cup {Returned(PitcherDoc(h, hp, ap)) :
                h \in {121, 141}, hp \in ListsOver(ScanPool, MaxPitchers),
                ap \in {NoPitcherPlayers, StarterPlayers}}

\* the people endpoint answers both lookups
ScanPeople ==
    << Returned([people |-> <<[fullName |-> <<"Kodai", "Senga">>,
                               primaryNumber |-> <<"34">>,
                               pitchHand |-> [code |-> <<"R">>]]>>]),
       Returned([people |-> <<[fullName |-> <<"Jose", "Berrios">>]>>]) >>

InitPitchers ==
    /\ pc = "get_pitchers_from_boxscore"
    /\ argv = Some([team |-> None, date |-> None])
    /\ \E t \in {"NYM", "TOR"} :
        /\ team_abbr = Some(t)
        /\ team_id = Some(MLB_TEAMS[t])
    /\ game = Some(TeamGameFrom(FullGame("Final")))
    /\ pitchers = None
    /\ umpires = None
    /\ lineup = None
    /\ resp = None
    /\ exc = None
    /\ out = <<>>
    /\ calls = <<>>
    /\ exit_status = None

\* the call ended as r, having received rb: pitchers holds what it returned
PitchersScanned(r, rb) ==
    /\ resp' = Some([boxscore |-> rb, people |-> ScanPeople])
    /\ pitchers' = r.ret
    /\ out' = out \o r.out
    /\ calls' = calls \o r.calls
    /\ exc' = r.exc
    /\ pc' = IF r.exc = None THEN "returned" ELSE "raised"
    /\ UNCHANGED <<argv, team_abbr, team_id, game, umpires, lineup, exit_status>>

\* lines 249-310: one call of get_pitchers_from_boxscore
BoxscorePitchers ==
    /\ pc = "get_pitchers_from_boxscore"
    /\ \E rb \in ScanResponses :
          PitchersScanned(get_pitchers_from_boxscore(Val(Val(game)[1]), Val(team_id),
                                                     rb, ScanPeople), rb)

NextPitchers == BoxscorePitchers

SpecPitchers == InitPitchers /\ [][NextPitchers]_vars

----------------------------------------------------------------------------

(* Properties *)

\* the --team value the run was given, the default filled in
TeamGiven == IF Val(argv).team = None THEN <<"N", "Y", "M">> ELSE Val(Val(argv).team)

\* two characters that are the same letter, case ignored
SameLetter(a, b) ==
    \/ a = b
    \/ \E i \in DOMAIN UpperLetters : {a, b} = {UpperLetters[i], LowerLetters[i]}

\* the rows of the table whose abbreviation is cs, case ignored
MatchingRows(cs) ==
    {i \in DOMAIN MLB_TEAMS_ROWS :
        /\ Len(cs) = Len(MLB_TEAMS_ROWS[i].abbr)
        /\ \A j \in DOMAIN cs : SameLetter(cs[j], MLB_TEAMS_ROWS[i].abbr[j])}

\* some call of the resolver fn is on record
Called(fn) == \E i \in DOMAIN calls : calls[i].fn = fn

\* some printed line holds the words ws in a row
Printed(ws) == \E i \in DOMAIN out : Contains(out[i], ws)

\* get_team_game has just returned: resp is what statsapi.schedule did
JustResolved == game # None /\ Len(calls) = 2

\* a game was found
Resolved == game # None /\ Val(game)[1] # None

\* C1: the table has exactly 30 abbreviations with pairwise distinct ids
\* (NYM 121, STL 138, LAD 119, NYY 147), and a --team value that is an
\* abbreviation of the table, case ignored (NYM when absent), makes main hold
\* that row's id and pass exactly that id to get_team_game.
C1_TeamTableResolves ==
    /\ Cardinality(DOMAIN MLB_TEAMS) = 30
    /\ \A a, b \in DOMAIN MLB_TEAMS : MLB_TEAMS[a] = MLB_TEAMS[b] => a = b
    /\ MLB_TEAMS["NYM"] = 121 /\ MLB_TEAMS["STL"] = 138
    /\ MLB_TEAMS["LAD"] = 119 /\ MLB_TEAMS["NYY"] = 147
    /\ argv # None =>
         \A i \in MatchingRows(TeamGiven) :
            /\ MLB_TEAMS[Join(MLB_TEAMS_ROWS[i].abbr)] = MLB_TEAMS_ROWS[i].id
            /\ team_id = Some(MLB_TEAMS_ROWS[i].id)
            /\ pc # "get_team_game" => Called("get_team_game")
            /\ \A c \in DOMAIN calls :
                  calls[c].fn = "get_team_game" =>
                      calls[c].ids = <<MLB_TEAMS_ROWS[i].id>>

\* a mixed-case --team value reached get_team_game with the table's id
C1_Witness ==
    /\ argv # None
    /\ Val(argv).team = Some(<<"S", "t", "L">>)
    /\ \E c \in DOMAIN calls :
          calls[c].fn = "get_team_game" /\ calls[c].ids = <<138>>

\* C2: a --team value that is no abbreviation of the table, case ignored,
\* ends the run with status 1 after one line holding "Invalid team
\* abbreviation" and every one of the 30 abbreviations, with no resolver
\* called and nothing sent outside.
C2_InvalidTeamRejected ==
    (argv # None /\ MatchingRows(TeamGiven) = {}) =>
        /\ pc = "exited"
        /\ exit_status = Some(1)
        /\ calls = <<>>
        /\ \E i \in DOMAIN out :
              /\ Contains(out[i], <<"Invalid", "team", "abbreviation">>)
              /\ \A r \in DOMAIN MLB_TEAMS_ROWS :
                    \E j \in DOMAIN out[i] : out[i][j] = Join(MLB_TEAMS_ROWS[r].abbr)

\* the run given --team XYZ has ended
C2_Witness ==
    /\ argv # None
    /\ Val(argv).team = Some(<<"X", "Y", "Z">>)
    /\ pc = "exited"
    /\ exit_status = Some(1)

\* C3: when statsapi.schedule lists no game, the tuple get_team_game returns
\* has None as game id, status, venue and team names, and a further component
\* holding "No game scheduled".
C3_AbsenceHasSeparateMessage ==
    (JustResolved /\ ~Val(resp).raises /\ Val(resp).val = <<>>) =>
        /\ Val(game)[1] = None
        /\ Val(game)[2] = None
        /\ Val(game)[3] = None
        /\ Val(game)[4] = None
        /\ \E i \in 5..Len(Val(game)) :
              Contains(Val(Val(game)[i]), <<"No", "game", "scheduled">>)

\* C4: when statsapi.schedule lists a game, the tuple get_team_game returns
\* has five components taken from the first game listed: id, status, venue,
\* home/away names and game_datetime.
C4_FiveComponents ==
    (JustResolved /\ Resolved) =>
        /\ Val(game)[1] = Some(Val(resp).val[1].game_id)
        /\ Val(game)[2] = Some(Val(resp).val[1].status)
        /\ Val(game)[3] = Get(Val(resp).val[1], "venue_name")
        /\ Val(game)[4] = Some([home |-> Val(resp).val[1].home_name,
                                away |-> Val(resp).val[1].away_name])
        /\ Len(Val(game)) = 5
        /\ Val(game)[5] = Get(Val(resp).val[1], "game_datetime")

C6_AbsencePrintsMessage ==
    (pc = "exited" /\ game # None /\ Val(game)[1] = None) =>
        /\ exit_status = Some(1)
        /\ ~Called("get_probable_pitchers")
        /\ ~Called("get_umpires")
        /\ ~Called("get_lineup")
        /\ \E i \in DOMAIN out : out[i] = Val(Val(game)[4])

\* C7: a run that resolved a game and has ended made all three fetches, and
\* printed the section of every fetch that returned data, whatever the
\* others did.
C7_StepsIndependent ==
    (pc = "exited" /\ Resolved) =>
        /\ Called("get_probable_pitchers")
        /\ Called("get_umpires")
        /\ Called("get_lineup")
        /\ pitchers # None => Printed(<<"STARTING", "PITCHERS">>)
        /\ (umpires # None /\ Val(umpires) # <<>>) => Printed(<<"UMPIRES">>)
        /\ (lineup # None /\ Val(lineup)[1] # None) => Printed(<<"OPPONENT", "LINEUP">>)

\* C8: a run that resolved a game and has ended has printed the header: a
\* line with both team names, and a line with the venue when it is known.
C8_HeaderWhenResolved ==
    (pc = "exited" /\ Resolved) =>
        /\ \E i \in DOMAIN out :
              /\ Contains(out[i], Val(Val(game)[4]).home)
              /\ Contains(out[i], Val(Val(game)[4]).away)
        /\ (Val(game)[3] # None /\ Val(Val(game)[3]) # <<>>) =>
              Printed(<<"Ballpark:">> \o Val(Val(game)[3]))

\* the fallback has just returned: resp is what the boxscore endpoint did
FellBack ==
    /\ lineup # None
    /\ Len(calls) >= 2
    /\ calls[Len(calls) - 1].fn = "fallback_get_lineup"

\* the boxscore document d holds both sides and the home team's id
SidesPresent(d) ==
    /\ HasKey(d, "teams")
    /\ HasKey(d.teams, "home") /\ HasKey(d.teams, "away")
    /\ HasKey(d.teams.home, "team") /\ HasKey(d.teams.home.team, "id")

\* the subject's side of d, and the other one
SubjectSide(d) == IF d.teams.home.team.id = Val(team_id) THEN "home" ELSE "away"
OpponentOf(d) == d.teams[IF SubjectSide(d) = "home" THEN "away" ELSE "home"]

\* the boxscore the fallback read has both sides, and the subject's batting
\* order is missing or empty
SubjectOrderMissing ==
    /\ FellBack
    /\ ~Val(resp).raises
    /\ SidesPresent(Val(resp).val)
    /\ \/ ~HasKey(Val(resp).val.teams[SubjectSide(Val(resp).val)], "battingOrder")
       \/ Val(resp).val.teams[SubjectSide(Val(resp).val)].battingOrder = <<>>

\* the opponent's side of the boxscore the fallback read holds its team name
OpponentNamed ==
    /\ HasKey(OpponentOf(Val(resp).val), "team")
    /\ HasKey(OpponentOf(Val(resp).val).team, "name")

\* get_lineup returned no data and a message that holds "not yet available"
\* and the opponent's name
UnavailableNamingOpponent ==
    /\ Val(lineup)[1] = None
    /\ Val(lineup)[2] # None
    /\ Contains(Val(Val(lineup)[2]), <<"not", "yet", "available">>)
    /\ OpponentNamed
    /\ Contains(Val(Val(lineup)[2]), OpponentOf(Val(resp).val).team.name)

\* C9 as stated: when the subject side's batting order is missing or empty,
\* get_lineup returns no data and a message that holds "not yet available"
\* and names the opponent.
C9_AsStated == SubjectOrderMissing => UnavailableNamingOpponent

\* C9, amended: when the subject side's batting order is missing or empty
\* and the opponent's side holds its team name, get_lineup returns no data
\* and a message that holds "not yet available" and names the opponent.
C9_UnavailableNamesOpponent ==
    (SubjectOrderMissing /\ OpponentNamed) => UnavailableNamingOpponent

\* the fallback read a boxscore whose subject side has no batting order and
\* whose opponent is named, and returned
C9_Witness ==
    /\ SubjectOrderMissing
    /\ OpponentNamed
    /\ ~HasKey(Val(resp).val.teams[SubjectSide(Val(resp).val)], "battingOrder")
    /\ Val(lineup)[1] = None

\* C10: in the lineup data get_lineup returns, on either path and for either
\* side, the i-th entry's batting_order is i.
C10_RanksContiguous ==
    (lineup # None /\ Val(lineup)[1] # None) =>
        \A l \in {Val(Val(lineup)[1]).team.lineup, Val(Val(lineup)[1]).opponent.lineup} :
            \A i \in DOMAIN l : l[i].batting_order = i

\* get_lineup has just returned what the statsapi.boxscore_data path built:
\* resp is the dict statsapi.boxscore_data returned
RicherReturned ==
    /\ lineup # None
    /\ calls # <<>>
    /\ calls[Len(calls)].fn = "statsapi.boxscore_data"

\* the batters list of the subject's side (which = "team") or of the other
\* side (which = "opponent") in the dict b
BattersOf(b, which) ==
    IF (b.teamInfo.home.id = Val(team_id)) <=> (which = "team")
    THEN b.homeBatters ELSE b.awayBatters

\* the row is a header row (person id 0 or absent) or a substitute
HeaderOrSubstitute(row) ==
    \/ ~HasKey(row, "personId")
    \/ row.personId = 0
    \/ (HasKey(row, "substitution") /\ row.substitution = TRUE)

\* the entry e of a lineup was built from the row: same position, and the
\* row's name or the full name playerInfo holds for it
BuiltFrom(e, row, b) ==
    /\ HasKey(row, "position") /\ row.position = e.position
    /\ HasKey(row, "name")
    /\ HasKey(row, "personId")
    /\ \/ e.name = row.name
       \/ /\ HasKey(b.playerInfo, "ID" \o ToString(row.personId))
          /\ HasKey(b.playerInfo["ID" \o ToString(row.personId)], "fullName")
          /\ e.name = b.playerInfo["ID" \o ToString(row.personId)].fullName

\* C11: in the lineup data the statsapi.boxscore_data path returns, for
\* either side, every entry was built from a row of that side's batters
\* list whose person id is nonzero and that is no substitution, and no entry
\* was built from a header row or a substitute.
C11_OnlyStarters ==
    RicherReturned =>
        \A which \in {"team", "opponent"} :
            /\ \A i \in DOMAIN Val(Val(lineup)[1])[which].lineup :
                  \E j \in DOMAIN BattersOf(Val(resp).val, which) :
                      /\ BuiltFrom(Val(Val(lineup)[1])[which].lineup[i],
                                   BattersOf(Val(resp).val, which)[j], Val(resp).val)
                      /\ ~HeaderOrSubstitute(BattersOf(Val(resp).val, which)[j])
            /\ \A j \in DOMAIN BattersOf(Val(resp).val, which) :
                  HeaderOrSubstitute(BattersOf(Val(resp).val, which)[j]) =>
                      \A i \in DOMAIN Val(Val(lineup)[1])[which].lineup :
                          ~BuiltFrom(Val(Val(lineup)[1])[which].lineup[i],
                                     BattersOf(Val(resp).val, which)[j], Val(resp).val)

\* a lineup was returned from a batters list that holds a substitute next to
\* a starter
C11_Witness ==
    /\ RicherReturned
    /\ \E j \in DOMAIN BattersOf(Val(resp).val, "team") :
          /\ HasKey(BattersOf(Val(resp).val, "team")[j], "substitution")
          /\ BattersOf(Val(resp).val, "team")[j].substitution = TRUE
    /\ Len(Val(Val(lineup)[1]).team.lineup) = 1

\* get_probable_pitchers has just ended: resp is what its path received
PitchersJustFetched == Called("get_probable_pitchers") /\ ~Called("get_umpires")

\* the status of the resolved game is one of the two the boxscore serves
LiveOrFinal == Val(Val(game)[2]) = "Final" \/ Val(Val(game)[2]) = "In Progress"

\* what the path chosen for the status does, given what it received
ChosenPath ==
    IF LiveOrFinal
    THEN get_pitchers_from_boxscore(Val(Val(game)[1]), Val(team_id),
             Val(resp).boxscore,
             Val(resp).people \o <<Returned(EmptyDict), Returned(EmptyDict)>>)
    ELSE get_pitchers_from_schedule(Val(Val(game)[1]), Val(team_id),
             Val(resp).schedule)

\* C12: get_probable_pitchers calls get_pitchers_from_boxscore and not
\* get_pitchers_from_schedule when the status is "Final" or "In Progress",
\* and the reverse for every other status; what it returns or raises is
\* what that path returned or raised, and the endpoint of the other path is
\* never asked.
C12_PitcherDispatch ==
    PitchersJustFetched =>
        /\ LiveOrFinal =>
              /\ Called("get_pitchers_from_boxscore")
              /\ ~Called("get_pitchers_from_schedule")
              /\ ~Called("statsapi.schedule(game_id)")
        /\ ~LiveOrFinal =>
              /\ Called("get_pitchers_from_schedule")
              /\ ~Called("get_pitchers_from_boxscore")
              /\ ~Called("GET boxscore")
        /\ pitchers = ChosenPath.ret
        /\ exc = ChosenPath.exc

\* the pitchers of a game in progress came from the boxscore
C12_Witness ==
    /\ PitchersJustFetched
    /\ Val(Val(game)[2]) = "In Progress"
    /\ Called("get_pitchers_from_boxscore")
    /\ pitchers # None

\* get_pitcher_details, called on its own, returned a details dict
DetailsReturned ==
    /\ pc = "returned"
    /\ Len(calls) = 1
    /\ calls[1].fn = "GET people"
    /\ pitchers # None

\* the throwing-hand code of the person the people endpoint returned, the
\* empty string when it is absent
HandCode ==
    IF /\ HasKey(Val(resp).val.people[1], "pitchHand")
       /\ HasKey(Val(resp).val.people[1].pitchHand, "code")
    THEN Val(resp).val.people[1].pitchHand.code
    ELSE <<>>

\* C13: the details get_pitcher_details returns carry the person's
\* throwing-hand code and its expansion: "RHP" for "R", "LHP" for "L",
\* "Unknown" for any other code and for an absent one.
C13_ThrowsExpansion ==
    DetailsReturned =>
        /\ Val(pitchers).throws = HandCode
        /\ HandCode = <<"R">> => Val(pitchers).throws_desc = <<"RHP">>
        /\ HandCode = <<"L">> => Val(pitchers).throws_desc = <<"LHP">>
        /\ HandCode \notin {<<"R">>, <<"L">>} =>
              Val(pitchers).throws_desc = <<"Unknown">>

\* a person without a throwing-hand code came back with the default
C13_Witness ==
    /\ DetailsReturned
    /\ ~HasKey(Val(resp).val.people[1], "pitchHand")
    /\ Val(pitchers).throws_desc = <<"Unknown">>

\* get_umpires has just ended: resp is what the boxscore endpoint did
UmpiresJustFetched == Called("get_umpires") /\ ~Called("get_lineup")

\* C14: when the boxscore endpoint answers, get_umpires returns the
\* officials list as it is (same elements, same order) if the field is there
\* and the list is not empty, and None if the field is missing or the list
\* is empty.
C14_OfficialsUnchanged ==
    (UmpiresJustFetched /\ ~Val(resp).raises) =>
        IF HasKey(Val(resp).val, "officials") /\ Len(Val(resp).val.officials) > 0
        THEN /\ umpires # None
             /\ Len(Val(umpires)) = Len(Val(resp).val.officials)
             /\ \A i \in DOMAIN Val(umpires) :
                   Val(umpires)[i] = Val(resp).val.officials[i]
        ELSE umpires = None

\* a list of two officials was returned
C14_Witness ==
    /\ UmpiresJustFetched
    /\ ~Val(resp).raises
    /\ umpires # None
    /\ Len(Val(umpires)) = 2

\* get_lineup returned no data and a message holding "not yet available"
LineupUnavailable ==
    /\ lineup # None
    /\ Val(lineup)[1] = None
    /\ Val(lineup)[2] # None
    /\ Contains(Val(Val(lineup)[2]), <<"not", "yet", "available">>)

\* main has returned, or the run has ended
MainDone == pc = "returned" \/ pc = "exited"

\* the header is on the output: a line with both team names, and the venue
\* line when the venue is known
HeaderRendered ==
    /\ \E i \in DOMAIN out :
          /\ Contains(out[i], Val(Val(game)[4]).home)
          /\ Contains(out[i], Val(Val(game)[4]).away)
    /\ (Val(game)[3] # None /\ Val(Val(game)[3]) # <<>>) =>
          \E i \in DOMAIN out : out[i] = <<"Ballpark:">> \o Val(Val(game)[3])

\* the notice is on the output, the error text is not, and the run did not
\* end with a failure status
NoticeNotFailure ==
    /\ \E i \in DOMAIN out : out[i] = <<"Lineups", "not", "yet", "available.">>
    /\ ~Printed(<<"Error", "getting", "lineup:">>)
    /\ ~Printed(Val(Val(lineup)[2]))
    /\ exit_status # Some(1)
    /\ pc = "exited" => exit_status = Some(0)

\* C15 as stated: when get_lineup returns no data and a message holding "not
\* yet available", main renders the header and the pitcher section, prints
\* the notice "Lineups not yet available" and not the error text, and the
\* run does not end with a failure status.
C15_AsStated ==
    (MainDone /\ LineupUnavailable) =>
        /\ HeaderRendered
        /\ Printed(<<"STARTING", "PITCHERS">>)
        /\ NoticeNotFailure

\* C15, amended: when get_lineup returns no data and a message holding "not
\* yet available", main renders the header, renders the pitcher section if
\* get_probable_pitchers returned pitcher data, prints the notice "Lineups
\* not yet available" and not the error text, and the run does not end with
\* a failure status.
C15_UnavailableIsNotFatal ==
    (MainDone /\ LineupUnavailable) =>
        /\ HeaderRendered
        /\ pitchers # None => Printed(<<"STARTING", "PITCHERS">>)
        /\ NoticeNotFailure

\* a run with pitcher data and no lineup yet has ended with status 0
C15_Witness ==
    /\ pc = "exited"
    /\ LineupUnavailable
    /\ pitchers # None
    /\ exit_status = Some(0)

\* main printed its report: the "=====" banner of line 600 is on the output
ReportRendered == \E i \in DOMAIN out : out[i] # <<>> /\ out[i][1] = "====="

\* the line the outermost boundary prints for the exception e
BoundaryLine(e) == <<"Error:">> \o e.text

\* C16: a run has no exit status until it ends; it ends with status 0
\* exactly when main printed its report and no exception escaped it; an
\* exception that escapes main leads only to the outermost boundary, which
\* prints it once, as the last line, and ends the run with status 1.
C16_ExitStatus ==
    /\ pc # "exited" => exit_status = None
    /\ exc # None => (pc = "raised" \/ pc = "exited")
    /\ pc = "exited" =>
          /\ exit_status = Some(0) \/ exit_status = Some(1)
          /\ exit_status = Some(0) <=> (ReportRendered /\ exc = None)
          /\ exc # None =>
                /\ exit_status = Some(1)
                /\ out[Len(out)] = BoundaryLine(Val(exc))
                /\ Cardinality({i \in DOMAIN out : out[i] = BoundaryLine(Val(exc))}) = 1

\* an exception escaped main after the game was resolved, and the run ended
C16_Witness ==
    /\ pc = "exited"
    /\ exc # None
    /\ Resolved
    /\ exit_status = Some(1)

\* C17: the header of a rendered report is the line "<away> vs. <home>", and
\* when lineups are rendered their two sections are labelled "LINEUP (HOME)"
\* and "LINEUP (AWAY)".
C17_AwayFirstSideLabels ==
    (MainDone /\ ReportRendered) =>
        /\ \E i \in DOMAIN out :
              out[i] = Val(Val(game)[4]).away \o <<"vs.">> \o Val(Val(game)[4]).home
        /\ (lineup # None /\ Val(lineup)[1] # None) =>
              /\ Printed(<<"LINEUP", "(HOME)">>)
              /\ Printed(<<"LINEUP", "(AWAY)">>)

\* the steps of main that resolve or fetch, in the order the claim gives
StepOrder == <<"get_team_game", "get_probable_pitchers", "get_umpires", "get_lineup">>

IsStepCall(c) == \E k \in DOMAIN StepOrder : c.fn = StepOrder[k]

\* the resolve and fetch steps main has made so far, in the order made
StepsDone ==
    [i \in DOMAIN SelectSeq(calls, IsStepCall) |-> SelectSeq(calls, IsStepCall)[i].fn]

\* how many times the report was rendered
Renders == Cardinality({i \in DOMAIN out : out[i] # <<>> /\ out[i][1] = "====="})

\* the moves of the run from one position to the next: resolve, the three
\* fetches, render, return and exit, with the two ways out (sys.exit(1) in
\* main, an exception on its way to the outermost boundary)
Moves ==
    { <<"start", "get_team_game">>, <<"start", "exited">>,
      <<"get_team_game", "get_probable_pitchers">>, <<"get_team_game", "exited">>,
      <<"get_probable_pitchers", "get_umpires">>, <<"get_probable_pitchers", "raised">>,
      <<"get_umpires", "get_lineup">>, <<"get_umpires", "raised">>,
      <<"get_lineup", "fallback_get_lineup">>, <<"get_lineup", "render">>,
      <<"fallback_get_lineup", "render">>, <<"fallback_get_lineup", "raised">>,
      <<"render", "returned">>, <<"returned", "exited">>, <<"raised", "exited">> }

\* what the order of the steps means in one state
StepsInOrder ==
    /\ Len(StepsDone) <= Len(StepOrder)
    /\ \A i \in DOMAIN StepsDone : StepsDone[i] = StepOrder[i]
    /\ Renders <= 1
    /\ Renders = 1 => (StepsDone = StepOrder /\ exc = None)
    /\ pc = "get_team_game" => StepsDone = <<>>
    /\ pc = "get_probable_pitchers" => (Resolved /\ Len(StepsDone) = 1)
    /\ pc = "get_umpires" => Len(StepsDone) = 2
    /\ pc = "get_lineup" => Len(StepsDone) = 3
    /\ (pc = "fallback_get_lineup" \/ pc = "render") =>
          (StepsDone = StepOrder /\ Renders = 0)
    /\ pc = "returned" => Renders = 1
    /\ (pc = "exited" /\ Resolved /\ exc = None) => Renders = 1
    /\ exc # None => (Resolved /\ Len(StepsDone) >= 2 /\ Renders = 0)
    /\ (game # None /\ ~Resolved) =>
          /\ pc = "exited"
          /\ StepsDone = <<"get_team_game">>
          /\ Len(out) = 2
          /\ exit_status = Some(1)

C19_FaultsConverted == exc = None /\ pc # "raised"


\* C20: get_lineup returns what the statsapi.boxscore_data path built only
\* when that path did not raise and built a non-empty lineup for both sides;
\* in every other case it returns exactly what fallback_get_lineup returns
\* on the boxscore response, and an error message (unavailability included)
\* only ever comes from the fallback.
C20_FallbackDecides ==
    /\ lineup # None => (RicherReturned \/ FellBack)
    /\ RicherReturned =>
          /\ ~Val(resp).raises
          /\ Val(lineup)[1] # None
          /\ Val(lineup)[2] = None
          /\ Val(Val(lineup)[1]).team.lineup # <<>>
          /\ Val(Val(lineup)[1]).opponent.lineup # <<>>
    /\ (lineup # None /\ Val(lineup)[2] # None) => FellBack
    /\ FellBack =>
          lineup = Some(fallback_get_lineup(Val(Val(game)[1]), Val(team_id),
                                            Val(resp)).ret)
    /\ pc = "fallback_get_lineup" => lineup = None
    /\ pc = "raised" => (Called("fallback_get_lineup") /\ lineup = None)

\* the richer path gave up and the fallback declared the lineup unavailable
C20_Witness ==
    /\ FellBack
    /\ Val(lineup)[1] = None
    /\ Val(lineup)[2] # None
    /\ Contains(Val(Val(lineup)[2]), <<"not", "yet", "available">>)


\* a batting-order code read as a number ("700" is 700)
RECURSIVE CodeValue(_)
CodeValue(code) ==
    IF code = <<>> THEN 0
    ELSE 10 * CodeValue(SubSeq(code, 1, Len(code) - 1)) + DigitVal(code[Len(code)])

\* the code a row is sorted by: its battingOrder, 999 when it has none
RowCode(row) ==
    IF HasKey(row, "battingOrder") THEN CodeValue(row.battingOrder) ELSE 999

\* the place of row j among the starters of rows in ascending order of code,
\* rows of equal code in the order of the list
PlaceAmongStarters(rows, j) ==
    1 + Cardinality({q \in DOMAIN rows :
            /\ ~HeaderOrSubstitute(rows[q])
            /\ \/ RowCode(rows[q]) < RowCode(rows[j])
               \/ (RowCode(rows[q]) = RowCode(rows[j]) /\ q < j)})

\* the entries of l are in ascending order of the codes of the rows they were
\* built from, each ranked by its row's place among the sorted starters
RankedBySortedCode(l, rows, b) ==
    /\ \A i \in DOMAIN l :
          \E j \in DOMAIN rows :
              /\ BuiltFrom(l[i], rows[j], b)
              /\ ~HeaderOrSubstitute(rows[j])
              /\ l[i].batting_order = PlaceAmongStarters(rows, j)
    /\ \A i \in DOMAIN l :
          \A k \in DOMAIN l : i < k => l[i].batting_order < l[k].batting_order

\* C21: in the lineup data the statsapi.boxscore_data path returns, for
\* either side, the entries are in ascending order of the batting-order
\* codes of their rows, and each entry's rank is its row's place in the
\* starters sorted by code (a starter with code "700" that is second among
\* the starters has rank 2).
C21_RankedBySortedCode ==
    RicherReturned =>
        \A which \in {"team", "opponent"} :
            RankedBySortedCode(Val(Val(lineup)[1])[which].lineup,
                               BattersOf(Val(resp).val, which), Val(resp).val)

\* the starter with code "700" came first in the batters list and second in
\* the lineup returned, with rank 2
C21_Witness ==
    /\ RicherReturned
    /\ Len(BattersOf(Val(resp).val, "team")) = 2
    /\ BattersOf(Val(resp).val, "team")[1].personId = 2
    /\ BattersOf(Val(resp).val, "team")[2].personId = 1
    /\ Len(Val(Val(lineup)[1]).team.lineup) = 2
    /\ Val(Val(lineup)[1]).team.lineup[1].position = "SS"
    /\ Val(Val(lineup)[1]).team.lineup[2].position = "3B"
    /\ Val(Val(lineup)[1]).team.lineup[2].batting_order = 2


\* the fallback has just returned lineup data
FallbackData == FellBack /\ Val(lineup)[1] # None

\* an entry of a batting-order list that stands for a player
IsPlayerId(player_id) == player_id # 0

\* the lineup l holds one entry per nonzero id of ids, in the order of ids,
\* with the name and position the side's players dict holds for that id and
\* the rank of its place among the nonzero ids
EntriesOfIds(l, ids, players) ==
    /\ Len(l) = Len(ids)
    /\ \A i \in DOMAIN l :
          /\ ItemsHasKey(players, "ID" \o ToString(ids[i]))
          /\ l[i].name = ItemsGet(players, "ID" \o ToString(ids[i])).person.fullName
          /\ l[i].position =
                ItemsGet(players, "ID" \o ToString(ids[i])).position.abbreviation
          /\ l[i].batting_order = i

\* C22: in the lineup data fallback_get_lineup returns, each side's lineup
\* holds exactly the nonzero ids of that side's battingOrder, in the order
\* of the list, each with the name and position of that id's player record;
\* a zero gives no entry and takes no rank.
C22_NonzeroIdsInOrder ==
    FallbackData =>
        /\ EntriesOfIds(Val(Val(lineup)[1]).team.lineup,
               SelectSeq(Val(resp).val.teams[SubjectSide(Val(resp).val)].battingOrder,
                         IsPlayerId),
               Val(resp).val.teams[SubjectSide(Val(resp).val)].players)
        /\ EntriesOfIds(Val(Val(lineup)[1]).opponent.lineup,
               SelectSeq(OpponentOf(Val(resp).val).battingOrder, IsPlayerId),
               OpponentOf(Val(resp).val).players)

\* the subject's batting order held a zero before a player's id, and the
\* lineup returned holds that player alone, with rank 1
C22_Witness ==
    /\ FallbackData
    /\ Val(resp).val.teams[SubjectSide(Val(resp).val)].battingOrder = <<0, 2>>
    /\ Len(Val(Val(lineup)[1]).team.lineup) = 1
    /\ Val(Val(lineup)[1]).team.lineup[1].batting_order = 1
    /\ Val(Val(lineup)[1]).team.lineup[1].position = "3B"


\* the side a resolver takes as the subject's, given the home side's team id
\* as the response holds it: home when it is the given team's, else away
SubjectSideFor(home_id) == IF home_id = Val(team_id) THEN "home" ELSE "away"

TheOther(side) == IF side = "home" THEN "away" ELSE "home"

\* no player of the side's players dict is a pitcher
HasNoPitcher(side) ==
    \A i \in DOMAIN side.players : side.players[i].val.position.abbreviation # "P"

\* get_pitchers_from_boxscore has just returned a dict built from the
\* document d
BoxscorePitchersReturned ==
    /\ PitchersJustFetched /\ exc = None /\ LiveOrFinal /\ pitchers # None

\* get_pitchers_from_schedule has just returned a dict built from a game record
SchedulePitchersReturned ==
    /\ PitchersJustFetched /\ exc = None /\ ~LiveOrFinal /\ pitchers # None

\* the pitchers dict p reports side s of the boxscore's teams as the subject
\* and the other side as the opponent
PitchersOfSide(p, teams, s) ==
    /\ p.team_name = Some(teams[s].team.name)
    /\ p.opponent_team = Some(teams[TheOther(s)].team.name)
    /\ HasNoPitcher(teams[s]) => p.team = None
    /\ HasNoPitcher(teams[TheOther(s)]) => p.opponent = None

\* the pitchers dict p reports side s of the game record g as the subject
\* and the other side as the opponent
ProbablesOfSide(p, g, s) ==
    /\ p.team_name = Get(g, s \o "_name")
    /\ p.opponent_team = Get(g, TheOther(s) \o "_name")
    /\ p.team # None => Some(Val(p.team).name) = Get(g, s \o "_probable_pitcher")
    /\ p.opponent # None =>
          Some(Val(p.opponent).name) = Get(g, TheOther(s) \o "_probable_pitcher")

\* the lineup data l of the statsapi.boxscore_data path reports side s of b
\* as the subject and the other side as the opponent
BattersOfSide(l, b, s) ==
    /\ l.team.name = b.teamInfo[s].teamName
    /\ l.opponent.team = b.teamInfo[TheOther(s)].teamName
    /\ \A i \in DOMAIN l.team.lineup :
          \E j \in DOMAIN b[s \o "Batters"] :
              BuiltFrom(l.team.lineup[i], b[s \o "Batters"][j], b)
    /\ \A i \in DOMAIN l.opponent.lineup :
          \E j \in DOMAIN b[TheOther(s) \o "Batters"] :
              BuiltFrom(l.opponent.lineup[i], b[TheOther(s) \o "Batters"][j], b)

\* the lineup data l of the fallback reports side s of the boxscore's teams
\* as the subject and the other side as the opponent
OrdersOfSide(l, teams, s) ==
    /\ l.team.name = teams[s].team.name
    /\ l.opponent.team = teams[TheOther(s)].team.name
    /\ EntriesOfIds(l.team.lineup, SelectSeq(teams[s].battingOrder, IsPlayerId),
                    teams[s].players)
    /\ EntriesOfIds(l.opponent.lineup,
                    SelectSeq(teams[TheOther(s)].battingOrder, IsPlayerId),
                    teams[TheOther(s)].players)

\* C23, amended: every resolver that splits the two sides takes the home
\* side as the subject's when the home side's team id equals the given team
\* id and the away side otherwise, and the other side as the opponent's; so
\* when the given team is one of the two sides, what is reported as the
\* subject's comes from the side that carries its id.
C23_SubjectFromHomeTest ==
    /\ BoxscorePitchersReturned =>
          PitchersOfSide(Val(pitchers), Val(resp).boxscore.val.teams,
              SubjectSideFor(Val(resp).boxscore.val.teams.home.team.id))
    /\ SchedulePitchersReturned =>
          ProbablesOfSide(Val(pitchers), Val(resp).schedule.val[1],
              SubjectSideFor(Val(resp).schedule.val[1].home_id))
    /\ RicherReturned =>
          BattersOfSide(Val(Val(lineup)[1]), Val(resp).val,
              SubjectSideFor(Val(resp).val.teamInfo.home.id))
    /\ FallbackData =>
          OrdersOfSide(Val(Val(lineup)[1]), Val(resp).val.teams,
              SubjectSideFor(Val(resp).val.teams.home.team.id))
    /\ \A s \in {"home", "away"} :
          /\ (BoxscorePitchersReturned
                /\ Val(resp).boxscore.val.teams[s].team.id = Val(team_id)) =>
                SubjectSideFor(Val(resp).boxscore.val.teams.home.team.id) = s
          /\ (RicherReturned /\ Val(resp).val.teamInfo[s].id = Val(team_id)) =>
                SubjectSideFor(Val(resp).val.teamInfo.home.id) = s
          /\ (FallbackData /\ Val(resp).val.teams[s].team.id = Val(team_id)) =>
                SubjectSideFor(Val(resp).val.teams.home.team.id) = s

\* C23 as stated: what a resolver reports as the subject team's is taken
\* from a side whose team id is the given team id.
C23_AsStated ==
    /\ BoxscorePitchersReturned =>
          \E s \in {"home", "away"} :
              /\ Val(resp).boxscore.val.teams[s].team.id = Val(team_id)
              /\ Val(pitchers).team_name = Some(Val(resp).boxscore.val.teams[s].team.name)
    /\ RicherReturned =>
          \E s \in {"home", "away"} :
              /\ Val(resp).val.teamInfo[s].id = Val(team_id)
              /\ Val(Val(lineup)[1]).team.name = Val(resp).val.teamInfo[s].teamName
    /\ FallbackData =>
          \E s \in {"home", "away"} :
              /\ Val(resp).val.teams[s].team.id = Val(team_id)
              /\ Val(Val(lineup)[1]).team.name = Val(resp).val.teams[s].team.name

\* the given team was the away side of the boxscore the pitchers were read
\* from, and the dict returned names the away side as the subject
C23_Witness ==
    /\ BoxscorePitchersReturned
    /\ Val(resp).boxscore.val.teams.away.team.id = Val(team_id)
    /\ Val(resp).boxscore.val.teams.home.team.id # Val(team_id)
    /\ Val(pitchers).team_name = Some(Val(resp).boxscore.val.teams.away.team.name)
    /\ Val(pitchers).opponent_team = Some(Val(resp).boxscore.val.teams.home.team.name)


\* get_pitchers_from_boxscore, called alone, has returned a dict built from
\* the boxscore document
ScanReturned ==
    /\ pc = "returned"
    /\ calls # <<>> /\ calls[1].fn = "GET boxscore"
    /\ ~Val(resp).boxscore.raises
    /\ pitchers # None

\* the innings a player of position P with pitching stats is recorded with,
\* in tenths; -1 for any other player and for an innings text that is no
\* number
RecordedInnings(player) ==
    IF /\ player.position.abbreviation = "P"
       /\ HasKey(player, "stats") /\ HasKey(player.stats, "pitching")
       /\ HasKey(player.stats.pitching, "inningsPitched")
       /\ Len(player.stats.pitching.inningsPitched) = 3
       /\ IsDigit(player.stats.pitching.inningsPitched[1])
       /\ player.stats.pitching.inningsPitched[2] = "."
       /\ IsDigit(player.stats.pitching.inningsPitched[3])
    THEN 10 * DigitVal(player.stats.pitching.inningsPitched[1])
           + DigitVal(player.stats.pitching.inningsPitched[3])
    ELSE -1

\* item i of the players dict is the first of those with the greatest
\* recorded innings, and has pitched
IsStarterOf(items, i) ==
    /\ RecordedInnings(items[i].val) > 0
    /\ \A j \in DOMAIN items :
          /\ RecordedInnings(items[j].val) <= RecordedInnings(items[i].val)
          /\ j < i => RecordedInnings(items[j].val) < RecordedInnings(items[i].val)

\* the person ids of the starters of the subject's side and of the other
\* side, in that order, a side without one giving none
StarterIds(teams, s) ==
    [k \in 1..Cardinality({i \in DOMAIN teams[s].players :
                              IsStarterOf(teams[s].players, i)}) |->
        teams[s].players[CHOOSE i \in DOMAIN teams[s].players :
                            IsStarterOf(teams[s].players, i)].val.person.id]
    \o
    [k \in 1..Cardinality({i \in DOMAIN teams[TheOther(s)].players :
                              IsStarterOf(teams[TheOther(s)].players, i)}) |->
        teams[TheOther(s)].players[CHOOSE i \in DOMAIN teams[TheOther(s)].players :
                            IsStarterOf(teams[TheOther(s)].players, i)].val.person.id]

\* the person ids get_pitcher_details was called with, in the order of the
\* calls
LookedUp ==
    [k \in DOMAIN SelectSeq(calls, LAMBDA c : c.fn = "GET people") |->
        SelectSeq(calls, LAMBDA c : c.fn = "GET people")[k].ids[1]]

\* C24: on the boxscore pitcher path the pitcher looked up for a side is the
\* player of position P with pitching stats whose innings pitched are the
\* greatest of the side, the first met when several share them; an innings
\* text that is no number is passed over and the scan goes on; a side where
\* nobody has pitched is looked up for nobody.
C24_GreatestInningsFirstSeen ==
    ScanReturned =>
        LookedUp = StarterIds(Val(resp).boxscore.val.teams,
                       SubjectSideFor(Val(resp).boxscore.val.teams.home.team.id))

\* the home side's players held an innings text that is no number, then two
\* pitchers with 6.0 innings: the first of the two was looked up
C24_Witness ==
    /\ ScanReturned
    /\ Val(team_id) = 121
    /\ Val(resp).boxscore.val.teams.home.team.id = 121
    /\ Len(Val(resp).boxscore.val.teams.home.players) = 3
    /\ Val(resp).boxscore.val.teams.home.players[1].key = "ID4"
    /\ Val(resp).boxscore.val.teams.home.players[2].key = "ID3"
    /\ Val(resp).boxscore.val.teams.home.players[3].key = "ID1"
    /\ LookedUp[1] = 3
    /\ Val(pitchers).team # None


\* the key of the pitchers dict under which side s of the boxscore is
\* reported
KeyOfSide(s) ==
    IF s = SubjectSideFor(Val(resp).boxscore.val.teams.home.team.id)
    THEN "team" ELSE "opponent"

\* the people endpoint answered the one lookup made with a person record
OneLookupAnswered ==
    /\ Len(Val(resp).people) = 1
    /\ ~Val(resp).people[1].raises
    /\ HasKey(Val(resp).people[1].val, "people")
    /\ Val(resp).people[1].val.people # <<>>

\* main printed the pitcher line of the side reported as name with record rec
PitcherLinePrinted(name, rec) ==
    IF rec = None
    THEN \E i \in DOMAIN out : out[i] = PyStr(name) \o <<":">> \o NotAvailable
    ELSE \E i \in DOMAIN out :
            /\ Len(out[i]) > Len(PyStr(name))
            /\ SubSeq(out[i], 1, Len(PyStr(name)) + 1) = PyStr(name) \o <<":">>
            /\ Contains(out[i], Val(rec).name)
            /\ ~Contains(out[i], NotAvailable)

\* C25: on the boxscore pitcher path a side without a qualifying pitcher
\* has no record under its key while the dict is still returned with both
\* team names and, when the people endpoint answers, the other side's
\* record; and main prints "Starting pitcher information not available"
\* for a side without a record and the pitcher's line for a side with one.
C25_MissingSideOnly ==
    /\ BoxscorePitchersReturned =>
          \A s \in {"home", "away"} :
              HasNoPitcher(Val(resp).boxscore.val.teams[s]) =>
                  /\ Val(pitchers)[KeyOfSide(s)] = None
                  /\ Val(pitchers).team_name # None
                  /\ Val(pitchers).opponent_team # None
                  /\ (~HasNoPitcher(Val(resp).boxscore.val.teams[TheOther(s)])
                        /\ OneLookupAnswered) =>
                        Val(pitchers)[KeyOfSide(TheOther(s))] # None
    /\ (ReportRendered /\ pitchers # None) =>
          /\ PitcherLinePrinted(Val(pitchers).team_name, Val(pitchers).team)
          /\ PitcherLinePrinted(Val(pitchers).opponent_team, Val(pitchers).opponent)

\* the report of a finished game was printed after one lookup only: the
\* subject's pitcher has a line, the opponent's is reported not available
C25_Witness ==
    /\ ReportRendered
    /\ LiveOrFinal
    /\ pitchers # None
    /\ Val(pitchers).team # None
    /\ Val(pitchers).opponent = None
    /\ Cardinality({i \in DOMAIN calls : calls[i].fn = "GET people"}) = 1
    /\ PitcherLinePrinted(Val(pitchers).opponent_team, None)


\* the record the schedule path built for a side is what the claim says of
\* the probable pitcher's name as the game record holds it (None: no such
\* field): absent without a name, else the name with the other fields empty
MinimalRecord(rec, name) ==
    IF name = None \/ Val(name) = <<>> THEN rec = None
    ELSE /\ rec # None
         /\ DOMAIN Val(rec) = {"name", "jersey", "throws", "throws_desc"}
         /\ Val(rec).name = Val(name)
         /\ Val(rec).jersey = <<>>
         /\ Val(rec).throws = <<>>
         /\ Val(rec).throws_desc = <<>>

\* the probable pitcher's name of side s in the game record g
ProbableOf(g, s) ==
    IF HasKey(g, s \o "_probable_pitcher") THEN Some(g[s \o "_probable_pitcher"])
    ELSE None

\* C26: on the schedule pitcher path each side's record holds the probable
\* pitcher's name with jersey, throwing-hand code and label all empty, and
\* is absent when no name is published; and a run that took that path has
\* made no call of the people endpoint.
C26_NameOnlyNoLookup ==
    /\ SchedulePitchersReturned =>
          /\ MinimalRecord(Val(pitchers).team,
                 ProbableOf(Val(resp).schedule.val[1],
                     SubjectSideFor(Val(resp).schedule.val[1].home_id)))
          /\ MinimalRecord(Val(pitchers).opponent,
                 ProbableOf(Val(resp).schedule.val[1],
                     TheOther(SubjectSideFor(Val(resp).schedule.val[1].home_id))))
    /\ (Called("get_pitchers_from_schedule") \/ (Resolved /\ ~LiveOrFinal)) =>
          /\ ~Called("GET people")
          /\ ~Called("get_pitchers_from_boxscore")

\* the schedule path returned a record for the away side's probable pitcher
\* and none for the home side, whose record holds no probable pitcher
C26_Witness ==
    /\ SchedulePitchersReturned
    /\ Val(team_id) = 121
    /\ Val(resp).schedule.val[1].home_id = 121
    /\ ProbableOf(Val(resp).schedule.val[1], "home") = None
    /\ Val(pitchers).team = None
    /\ Val(pitchers).opponent # None
    /\ Val(Val(pitchers).opponent).name = <<"Jose", "Berrios">>


\* how many calls of fn the run has made
CountFn(fn) == Cardinality({i \in DOMAIN calls : calls[i].fn = fn})

\* the calls that leave the program
OutboundFns ==
    { "statsapi.schedule(date)", "statsapi.schedule(game_id)", "GET boxscore",
      "GET people", "statsapi.boxscore_data" }

OutboundCalls == Cardinality({i \in DOMAIN calls : calls[i].fn \in OutboundFns})

\* the outbound call a lookup made raised a transport failure
TransportFailed(r) == r.raises /\ r.exc.type \in {"RequestException", "Exception"}

C28_OneSource ==
    (lineup # None /\ Val(lineup)[1] # None) =>
        \/ /\ RicherReturned
           /\ ~Called("fallback_get_lineup")
           /\ ~Called("GET boxscore")
           /\ BattersOfSide(Val(Val(lineup)[1]), Val(resp).val,
                  SubjectSideFor(Val(resp).val.teamInfo.home.id))
        \/ /\ FellBack
           /\ \A i \in DOMAIN calls :
                 calls[i].fn = "statsapi.boxscore_data" => i < Len(calls) - 1
           /\ OrdersOfSide(Val(Val(lineup)[1]), Val(resp).val.teams,
                  SubjectSideFor(Val(resp).val.teams.home.team.id))

\* the fallback returned data whose two lineups differ, each from its own
\* side's batting order
C28_Witness ==
    /\ FallbackData
    /\ Len(Val(Val(lineup)[1]).team.lineup) = 2
    /\ Len(Val(Val(lineup)[1]).opponent.lineup) = 1
    /\ Val(resp).val.teams[SubjectSideFor(Val(resp).val.teams.home.team.id)].battingOrder
          = <<2, 1>>


\* get_lineup returned lineup data
LineupDataReturned == lineup # None /\ Val(lineup)[1] # None

\* line i of the output is a lineup banner
IsLineupBanner(i) ==
    /\ Len(out[i]) >= 3
    /\ out[i][1] = "-----"
    /\ out[i][Len(out[i]) - 1] = "LINEUP"

\* line i of the output is a player's line: it ends with the position in
\* brackets
IsPlayerLine(i) == Len(out[i]) >= 3 /\ out[i][Len(out[i])] = ")"

\* main printed a lineup banner with no player under it
EmptyBannerPrinted ==
    \E i \in DOMAIN out :
        /\ IsLineupBanner(i)
        /\ (i = Len(out) \/ ~IsPlayerLine(i + 1))

\* C29, amended: lineup data returned by the statsapi.boxscore_data path
\* has two non-empty lineups, and main prints both banners with players
\* under them; lineup data returned by the fallback has a non-empty batting
\* order list on the subject's side only, and a lineup of it is empty when
\* its side's batting order holds no nonzero id (an empty list on the
\* opponent's side, zeros only on either): main then prints that side's
\* banner with no player under it.
C29_NonEmptyOnRicherPathOnly ==
    /\ RicherReturned =>
          /\ Val(Val(lineup)[1]).team.lineup # <<>>
          /\ Val(Val(lineup)[1]).opponent.lineup # <<>>
          /\ ~EmptyBannerPrinted
    /\ FallbackData =>
          /\ Val(resp).val.teams[SubjectSideFor(Val(resp).val.teams.home.team.id)]
                .battingOrder # <<>>
          /\ Val(Val(lineup)[1]).team.lineup = <<>> <=>
                SelectSeq(Val(resp).val
                              .teams[SubjectSideFor(Val(resp).val.teams.home.team.id)]
                              .battingOrder, IsPlayerId) = <<>>
          /\ Val(Val(lineup)[1]).opponent.lineup = <<>> <=>
                SelectSeq(Val(resp).val
                              .teams[TheOther(SubjectSideFor(
                                         Val(resp).val.teams.home.team.id))]
                              .battingOrder, IsPlayerId) = <<>>
    /\ (ReportRendered /\ LineupDataReturned) =>
          (EmptyBannerPrinted <=>
              \/ Val(Val(lineup)[1]).team.lineup = <<>>
              \/ Val(Val(lineup)[1]).opponent.lineup = <<>>)

\* C29 as stated: whenever get_lineup returns lineup data both lineups are
\* non-empty, and main never prints a lineup banner with no players under it.
C29_AsStated ==
    /\ LineupDataReturned =>
          /\ Val(Val(lineup)[1]).team.lineup # <<>>
          /\ Val(Val(lineup)[1]).opponent.lineup # <<>>
    /\ ~EmptyBannerPrinted

\* the fallback returned data with an empty opponent lineup, and the report
\* holds the opponent's banner with no player under it
C29_Witness ==
    /\ ReportRendered
    /\ FallbackData
    /\ Val(Val(lineup)[1]).team.lineup # <<>>
    /\ Val(Val(lineup)[1]).opponent.lineup = <<>>
    /\ EmptyBannerPrinted


\* the words whose presence in the error makes main print the quiet notice
NotYetWords == <<"not", "yet", "available">>

\* the quiet notice, and the line main prints for the error e otherwise
QuietNotice == <<"Lineups", "not", "yet", "available.">>
LineupErrorLine(e) == <<"Error", "getting", "lineup:">> \o e

\* some nonzero id of the side's batting order has no record in its players
RecordMissing(side) ==
    /\ HasKey(side, "battingOrder")
    /\ \E i \in DOMAIN side.battingOrder :
          /\ side.battingOrder[i] # 0
          /\ ~ItemsHasKey(side.players, "ID" \o ToString(side.battingOrder[i]))

\* the fallback read a boxscore whose subject side has a batting order and
\* both sides their players, while the opponent's battingOrder field or a
\* player's record is missing
OrderOrRecordMissing ==
    /\ FellBack
    /\ ~Val(resp).raises
    /\ SidesPresent(Val(resp).val)
    /\ HasKey(Val(resp).val.teams[SubjectSide(Val(resp).val)], "battingOrder")
    /\ Val(resp).val.teams[SubjectSide(Val(resp).val)].battingOrder # <<>>
    /\ HasKey(Val(resp).val.teams[SubjectSide(Val(resp).val)], "players")
    /\ HasKey(OpponentOf(Val(resp).val), "players")
    /\ \/ ~HasKey(OpponentOf(Val(resp).val), "battingOrder")
       \/ RecordMissing(Val(resp).val.teams[SubjectSide(Val(resp).val)])
       \/ RecordMissing(OpponentOf(Val(resp).val))

\* C30: main prints "Lineups not yet available." only when get_lineup
\* returned no data and an error that is empty or holds "not yet available",
\* and prints "Error getting lineup: <error>" for every other error; when
\* the subject side has a batting order but the opponent's battingOrder
\* field or a player's record is missing, fallback_get_lineup returns no
\* data and a message "Lineup data not available yet: ...", which main
\* prints as "Error getting lineup: ...".
C30_QuietNoticeReserved ==
    /\ OrderOrRecordMissing =>
          /\ Val(lineup)[1] = None
          /\ Val(lineup)[2] # None
          /\ Len(Val(Val(lineup)[2])) > 5
          /\ SubSeq(Val(Val(lineup)[2]), 1, 5)
                = <<"Lineup", "data", "not", "available", "yet:">>
          /\ ~Contains(Val(Val(lineup)[2]), NotYetWords)
    /\ (ReportRendered /\ lineup # None) =>
          /\ (\E i \in DOMAIN out : out[i] = QuietNotice) <=>
                /\ Val(lineup)[1] = None
                /\ \/ Val(lineup)[2] = None
                   \/ Val(Val(lineup)[2]) = <<>>
                   \/ Contains(Val(Val(lineup)[2]), NotYetWords)
          /\ (\E i \in DOMAIN out :
                 Len(out[i]) >= 3
                   /\ SubSeq(out[i], 1, 3) = <<"Error", "getting", "lineup:">>) <=>
                /\ Val(lineup)[1] = None
                /\ Val(lineup)[2] # None
                /\ Val(Val(lineup)[2]) # <<>>
                /\ ~Contains(Val(Val(lineup)[2]), NotYetWords)
                /\ \E i \in DOMAIN out : out[i] = LineupErrorLine(Val(Val(lineup)[2]))

\* the opponent's side had no battingOrder field: the report holds the
\* fallback's message as an error and no quiet notice
C30_Witness ==
    /\ ReportRendered
    /\ OrderOrRecordMissing
    /\ ~HasKey(OpponentOf(Val(resp).val), "battingOrder")
    /\ \E i \in DOMAIN out :
          out[i] = <<"Error", "getting", "lineup:", "Lineup", "data", "not",
                     "available", "yet:">> \o KeyErr("battingOrder").text
    /\ ~\E i \in DOMAIN out : out[i] = QuietNotice

============================================================================
